---- MODULE Spec2Model ----
(***************************************************************************)
(* Limit order book, matching engine and participant registry of the       *)
(* trading competition exchange (one symbol, one worker).                  *)
(*                                                                         *)
(* Python objects are modelled as a heap: every Order and every LimitLevel *)
(* (with the OrderList it owns) is a record addressed by an identifier;    *)
(* None is the identifier 0.  Prices and balances are integers.            *)
(***************************************************************************)
EXTENDS Integers, Sequences, FiniteSets, TLC

\* ---- bounds of the model
\* Spec: two participants trading on both sides.
MaxOrders == 3          \* limit orders created in one run
MaxPrice == 3           \* limit prices are 1..MaxPrice
MaxSize == 2            \* order sizes are 1..MaxSize
\* SpecLevels: one seller and one buyer quoting single units on many prices.
LevelsOrders == 5       \* limit orders created in one run
LevelsPrice == 4        \* limit prices are 1..LevelsPrice
\* SpecQueue: commands waiting in the queue of the symbol.
QueueCommands == 4      \* commands put into the queue in one run
QueueOrders == 3        \* limit orders created in one run
QueuePrice == 2         \* limit prices are 1..QueuePrice
\* SpecRegistry: the workers of two symbols trading for the same participants.
RaceTrades == 2         \* trades of one worker in one run
\* SpecWait: commands put into the queue while the worker waits and works.
WaitCommands == 7       \* commands put into the queue in one run
\* SpecRange: limit orders at a low and at a very high price.
RangePrice == 1001      \* limit prices are 1 and RangePrice

\* ---- object identifiers
None == 0               \* Python's None
BidsTree == -1          \* LimitOrderBook.bids, a LimitLevelTree
AsksTree == -2          \* LimitOrderBook.asks, a LimitLevelTree
MarketId == 0           \* order id written in the reports of a market order

Max(a, b) == IF a > b THEN a ELSE b
Participants == {"P1", "P2"}
Threads == {1, 2}           \* threads calling add_order_book / create_ticker_queue
OrderIds == 1..Max(MaxOrders, LevelsOrders)
NodeIds == 1..(2 * Max(MaxOrders, LevelsOrders) + 2)
\* the limit orders of test_concurrent_2_asks_2_bids_same_time, as the test
\* creates them before it starts a thread for each
TestOrders ==
    << [type |-> "limit", id |-> 1, participant_id |-> "P1", is_bid |-> FALSE,
        price |-> 100, size |-> 10, timestamp |-> 1],
       [type |-> "limit", id |-> 2, participant_id |-> "P2", is_bid |-> FALSE,
        price |-> 105, size |-> 10, timestamp |-> 2],
       [type |-> "limit", id |-> 3, participant_id |-> "P3", is_bid |-> TRUE,
        price |-> 110, size |-> 5, timestamp |-> 3],
       [type |-> "limit", id |-> 4, participant_id |-> "P2", is_bid |-> TRUE,
        price |-> 107, size |-> 10, timestamp |-> 4] >>
Prices == 1..Max(MaxPrice, LevelsPrice) \cup {RangePrice}
            \cup {TestOrders[i].price : i \in DOMAIN TestOrders}
LevelKeys == Prices \X BOOLEAN

NoOrder == [price |-> 0, size |-> 0, is_bid |-> FALSE, participant_id |-> "",
            next_item |-> None, previous_item |-> None, root |-> None]
Symbols == {"X", "Y"}       \* the symbol of the book and a second symbol
\* a worker that is not inside a trade
NoTrade == [pc |-> "idle", buyer |-> "", seller |-> "", price |-> 0, quantity |-> 0,
            buyer_balance |-> 0, loaded |-> 0, trades |-> 0]
\* no call of get_order_book is running
NoCall == [pc |-> "idle", bid_keys |-> <<>>, ask_keys |-> <<>>,
           best_bid_price |-> None, best_ask_price |-> None,
           bids |-> <<>>, asks |-> <<>>, seen |-> {}]
NoLevel == [price |-> 0, size |-> 0, parent |-> None, left_child |-> None,
            right_child |-> None, height |-> 0, head |-> None, tail |-> None,
            count |-> 0]

VARIABLES
    ord,            \* heap of Order objects: order id -> record
    lvl,            \* heap of LimitLevel objects (and their OrderList)
    price_levels,   \* LimitOrderBook._price_levels: (price, is_bid) -> node or None
    orders,         \* LimitOrderBook._orders: the ids it holds
    bids, asks,     \* right_child of the two LimitLevelTree objects
    best_bid, best_ask,
    balance,        \* Participant.__balance
    portfolio,      \* Participant.__portfolio[symbol]
    cur,            \* the command the worker is executing, or the idle record
    next_id,        \* next order id to hand out
    reports,        \* execution reports sent by the last step of the worker
    queue,          \* PerTickerOrderQueue.ticker_queues[symbol], a deque
    now,            \* the clock that stamps the commands put into the queue
    returned,       \* what the last call of create_limit_order returned
    pc,             \* position of every thread that sets the symbol up
    made,           \* LimitOrderBook objects created for the symbol so far
    mine,           \* the LimitOrderBook a thread has created (newOrderBook)
    order_books,    \* order_books[symbol]: a book, or None without an entry
    match_engines,  \* the book of match_engines[symbol], or None
    has_queue,      \* symbol in ticker_queues (with its condition)
    lock,           \* the thread holding PerTickerOrderQueue.lock, or None
    workers,        \* the worker threads started for the symbol
    condition,      \* the worker holding the lock of conditions[symbol], or None
    match_engine,   \* the book of the MatchEngine the worker fetched last
    race,           \* the worker of every symbol inside a trade: its locals
    portfolio_other,\* Participant.__portfolio[symbol] for the second symbol
    snap,           \* a call of get_order_book: its position and its locals
    submitted       \* the orders of the unit test put so far, in the order of put_order

vars == <<ord, lvl, price_levels, orders, bids, asks, best_bid, best_ask,
          balance, portfolio, cur, next_id, reports, queue, now, returned,
          pc, made, mine, order_books, match_engines, has_queue, lock, workers,
          condition, match_engine, race, portfolio_other, snap, submitted>>

\* the threads that set the symbol up, and what they set up
setup == <<pc, made, mine, order_books, match_engines, has_queue, lock, workers,
           match_engine>>

\* the trades in progress on the two symbols, and the threads of the unit test
registry == <<race, portfolio_other, submitted>>

\* the LimitOrderBook with the objects it refers to
book == <<ord, lvl, price_levels, orders, bids, asks, best_bid, best_ask>>


\* ---------------------------------------------------------------------------
\* The heap a handler works on.  H is a record with one field per variable of
\* the book and the registry, plus
\*   exc      an exception is propagating (every later statement is skipped),
\*   reports  the execution reports sent so far by the running step,
\*   ret      the value returned by the last call of LimitOrderBook.remove.
\* ---------------------------------------------------------------------------
Raise(H) == [H EXCEPT !.exc = TRUE]
Caught(H) == [H EXCEPT !.exc = FALSE]

\* bool(x) of a LimitLevel is len(x) > 0, i.e. the count of its OrderList; a
\* LimitLevelTree defines neither __bool__ nor __len__ and is always true.
Truthy(H, x) == x # None /\ (x < 0 \/ H.lvl[x].count > 0)

\* x.right_child, for a LimitLevel or a LimitLevelTree.
RightChild(H, x) ==
    IF x = BidsTree THEN H.bids ELSE IF x = AsksTree THEN H.asks ELSE H.lvl[x].right_child

\* x.f = v.  None has no attributes; a LimitLevelTree has the single slot
\* right_child.
SetF(H, x, f, v) ==
    IF H.exc THEN H
    ELSE IF x = None THEN Raise(H)
    ELSE IF x = BidsTree THEN (IF f = "right_child" THEN [H EXCEPT !.bids = v] ELSE Raise(H))
    ELSE IF x = AsksTree THEN (IF f = "right_child" THEN [H EXCEPT !.asks = v] ELSE Raise(H))
    ELSE [H EXCEPT !.lvl[x][f] = v]

\* ---- OrderList / Order (doubly linked list of one price level)

OrderListAppend(H, n, o) ==
    IF H.exc THEN H
    ELSE IF H.lvl[n].head = None
    THEN [H EXCEPT !.ord[o].root = n,
                   !.lvl[n].head = o, !.lvl[n].tail = o,
                   !.lvl[n].count = @ + 1]
    ELSE IF H.lvl[n].tail = None
    THEN Raise([H EXCEPT !.ord[o].root = n])
    ELSE [H EXCEPT !.ord[o].root = n,
                   !.ord[H.lvl[n].tail].next_item = o,
                   !.ord[o].previous_item = H.lvl[n].tail,
                   !.lvl[n].tail = o,
                   !.lvl[n].size = @ + H.ord[o].size,
                   !.lvl[n].count = @ + 1]

PopFromList(H, o) ==
    IF H.exc THEN H
    ELSE LET r == H.ord[o].root
             prev == H.ord[o].previous_item
             nxt == H.ord[o].next_item
             Count(G) == [G EXCEPT !.lvl[r].count = @ - 1,
                                   !.lvl[r].size = @ - G.ord[o].size]
         IN  IF r = None THEN Raise(H)
             ELSE IF prev = None
             THEN Count(IF nxt # None
                        THEN [H EXCEPT !.lvl[r].head = nxt,
                                       !.ord[nxt].previous_item = None]
                        ELSE [H EXCEPT !.lvl[r].head = nxt])
             ELSE IF nxt = None
             THEN Count([H EXCEPT !.lvl[r].tail = prev,
                                  !.ord[prev].next_item = None])
             ELSE Count(H)

\* LimitLevel(order): a fresh node n holding the single order o.
NewLimitLevel(H, n, o) ==
    OrderListAppend([H EXCEPT !.lvl[n] = [NoLevel EXCEPT !.price = H.ord[o].price,
                                                         !.size = H.ord[o].size,
                                                         !.height = 1]],
                    n, o)

\* The node a new LimitLevel object gets: any identifier no object uses.
FreeNodes(H) == {n \in NodeIds : H.lvl[n] = NoLevel}
NewNode(H) ==
    CHOOSE n \in NodeIds :
        H.lvl[n] = NoLevel /\ \A m \in 1..(n - 1) : H.lvl[m] # NoLevel

\* ---- LimitLevel: node of the price tree (limitTreeNodes.py)
\* A method is a chain of statements; each statement is an operator on the heap
\* the statements before it have produced.

IsRoot(H, n) == H.lvl[n].parent < 0

\* height of a child as _update_height and balance_factor read it
ChildHeight(H, c) == IF Truthy(H, c) THEN H.lvl[c].height ELSE 0

BalanceFactor(H, n) ==
    ChildHeight(H, H.lvl[n].right_child) - ChildHeight(H, H.lvl[n].left_child)

UpdateHeight(H, n) ==
    IF H.exc THEN H
    ELSE IF n <= 0 THEN Raise(H)
    ELSE [H EXCEPT !.lvl[n].height =
             Max(ChildHeight(H, H.lvl[n].left_child),
                 ChildHeight(H, H.lvl[n].right_child)) + 1]

\* The first three statements of _ll_case and _rr_case: hang child where self
\* hangs.
ConnectToParent(H, n, child) ==
    IF H.exc THEN H
    ELSE IF IsRoot(H, n) THEN SetF(H, H.lvl[n].parent, "right_child", child)
    ELSE IF H.lvl[n].parent = None THEN Raise(H)
    ELSE SetF(H, H.lvl[n].parent,
              IF H.lvl[H.lvl[n].parent].left_child = n THEN "left_child"
                                                       ELSE "right_child",
              child)

\* Right rotation around n.
LLCase(H, n) ==
    IF H.exc THEN H
    ELSE LET child == H.lvl[n].left_child
             Heights(G) == UpdateHeight(UpdateHeight(G, n), child)
             Relink(G) ==
                 Heights(SetF(SetF(G, child, "right_child", n), n, "parent", child))
             Adopt(G) ==
                 Relink(IF Truthy(G, G.lvl[n].left_child)
                        THEN SetF(G, G.lvl[n].left_child, "parent", n)
                        ELSE G)
             Move(G) ==
                 IF G.exc THEN G
                 ELSE Adopt(SetF(G, n, "left_child", G.lvl[child].right_child))
         IN Move(SetF(ConnectToParent(H, n, child), child, "parent", H.lvl[n].parent))

\* Left rotation around n.
RRCase(H, n) ==
    IF H.exc THEN H
    ELSE LET child == H.lvl[n].right_child
             Heights(G) == UpdateHeight(UpdateHeight(G, n), child)
             Relink(G) ==
                 Heights(SetF(SetF(G, child, "left_child", n), n, "parent", child))
             Adopt(G) ==
                 Relink(IF Truthy(G, G.lvl[n].right_child)
                        THEN SetF(G, G.lvl[n].right_child, "parent", n)
                        ELSE G)
             Move(G) ==
                 IF G.exc THEN G
                 ELSE Adopt(SetF(G, n, "right_child", G.lvl[child].left_child))
         IN Move(SetF(ConnectToParent(H, n, child), child, "parent", H.lvl[n].parent))

LRCase(H, n) ==
    IF H.exc THEN H
    ELSE LET child == H.lvl[n].left_child
             gc == H.lvl[child].right_child
             Rotate(G) ==
                 LLCase(SetF(SetF(G, n, "left_child", gc), gc, "left_child", child), n)
             Adopt(G) ==
                 Rotate(IF Truthy(G, G.lvl[child].right_child)
                        THEN SetF(G, G.lvl[child].right_child, "parent", child)
                        ELSE G)
             Move(G) ==
                 IF G.exc THEN G
                 ELSE Adopt(SetF(G, child, "right_child", G.lvl[gc].left_child))
         IN IF child = None THEN Raise(H)
            ELSE Move(SetF(SetF(H, child, "parent", gc), gc, "parent", n))

RLCase(H, n) ==
    IF H.exc THEN H
    ELSE LET child == H.lvl[n].right_child
             gc == H.lvl[child].left_child
             Rotate(G) ==
                 RRCase(SetF(SetF(G, n, "right_child", gc), gc, "right_child", child), n)
             Adopt(G) ==
                 Rotate(IF Truthy(G, G.lvl[child].left_child)
                        THEN SetF(G, G.lvl[child].left_child, "parent", child)
                        ELSE G)
             Move(G) ==
                 IF G.exc THEN G
                 ELSE Adopt(SetF(G, child, "left_child", G.lvl[gc].right_child))
         IN IF child = None THEN Raise(H)
            ELSE Move(SetF(SetF(H, child, "parent", gc), gc, "parent", n))

\* The rotation balance() chooses for node n, if any.
Rebalance(H, n) ==
    IF BalanceFactor(H, n) > 1
    THEN (IF H.lvl[n].right_child = None THEN Raise(H)
          ELSE IF BalanceFactor(H, H.lvl[n].right_child) < 0 THEN RLCase(H, n)
          ELSE RRCase(H, n))
    ELSE IF BalanceFactor(H, n) < -1
    THEN (IF H.lvl[n].left_child = None THEN Raise(H)
          ELSE IF BalanceFactor(H, H.lvl[n].left_child) < 0 THEN LLCase(H, n)
          ELSE LRCase(H, n))
    ELSE H

RECURSIVE Balance(_, _)
\* LimitLevel.balance: rebalance n, then walk up.
Balance(H, n) ==
    IF H.exc THEN H
    ELSE LET Up(G, p) ==
                 IF ~Truthy(G, p) THEN G
                 ELSE IF p < 0 THEN Raise(G)    \* a LimitLevelTree has no is_root
                 ELSE IF IsRoot(G, p) THEN G
                 ELSE Balance(G, p)
             Parent(G) == IF G.exc THEN G ELSE Up(G, G.lvl[n].parent)
             Rotate(G) ==
                 IF IsRoot(G, n) THEN G
                 ELSE Parent(UpdateHeight(Rebalance(G, n), n))
         IN Rotate(UpdateHeight(H, n))

\* LimitLevel.grandpa
Grandpa(H, n) ==
    IF Truthy(H, H.lvl[n].parent) /\ H.lvl[n].parent > 0
    THEN H.lvl[H.lvl[n].parent].parent
    ELSE None

BalanceNode(H, g) == IF Truthy(H, g) /\ g > 0 THEN Balance(H, g) ELSE H

BalanceGrandpa(H, n) == IF H.exc THEN H ELSE BalanceNode(H, Grandpa(H, n))

RECURSIVE InsertBelow(_, _, _)
\* The loop of LimitLevelTree.insert, standing at node c.
InsertBelow(H, c, n) ==
    LET side == IF H.lvl[n].price > H.lvl[c].price THEN "right_child" ELSE "left_child"
    IN  IF H.lvl[n].price = H.lvl[c].price
        THEN Raise(H)       \* ValueError: the price is in the tree already
        ELSE IF H.lvl[c][side] = None
        THEN BalanceGrandpa([H EXCEPT !.lvl[c][side] = n, !.lvl[n].parent = c], n)
        ELSE InsertBelow(H, H.lvl[c][side], n)

\* LimitLevelTree.insert on tree t (BidsTree or AsksTree).
TreeInsert(H, t, n) ==
    IF H.exc THEN H
    ELSE IF RightChild(H, t) = None
    THEN SetF(SetF(H, t, "right_child", n), n, "parent", t)
    ELSE InsertBelow(H, RightChild(H, t), n)

ReplaceNodeInParent(H, n, new_value) ==
    IF H.exc THEN H
    ELSE LET p == H.lvl[n].parent
             Adopt(G) == IF Truthy(G, new_value) THEN SetF(G, new_value, "parent", p)
                         ELSE G
         IN  Adopt(IF IsRoot(H, n) THEN SetF(H, p, "right_child", new_value)
                   ELSE IF p = None THEN Raise(H)
                   ELSE UpdateHeight(
                            SetF(H, p,
                                 IF H.lvl[p].left_child = n THEN "left_child"
                                                            ELSE "right_child",
                                 new_value),
                            p))

RECURSIVE TreeMin(_, _)
\* LimitLevel.min
TreeMin(H, n) ==
    IF Truthy(H, H.lvl[n].left_child) THEN TreeMin(H, H.lvl[n].left_child) ELSE n

\* The two-children case of remove: self takes the successor's price and size.
CopySuccessor(H, n, s) ==
    [H EXCEPT !.lvl[n].price = H.lvl[s].price, !.lvl[n].size = H.lvl[s].size]

RECURSIVE LevelRemove(_, _)
\* LimitLevel.remove: take node n out of its tree.
LevelRemove(H, n) ==
    IF H.exc THEN H
    ELSE LET lc == H.lvl[n].left_child
             rc == H.lvl[n].right_child
             Successor(s) == BalanceGrandpa(LevelRemove(CopySuccessor(H, n, s), s), n)
         IN  IF Truthy(H, lc) /\ Truthy(H, rc)
             THEN Successor(TreeMin(H, rc))
             ELSE ReplaceNodeInParent(H, n, IF Truthy(H, lc) THEN lc
                                            ELSE IF Truthy(H, rc) THEN rc
                                            ELSE None)

\* ---- LimitOrderBook (limitOrderBook.py)

LevelKey(H, o) == <<H.ord[o].price, H.ord[o].is_bid>>

\* top_level(askForBid): head of the best level's list, or None.
TopLevel(H, askForBid) ==
    IF askForBid
    THEN (IF H.best_bid # None THEN H.lvl[H.best_bid].head ELSE None)
    ELSE (IF H.best_ask # None THEN H.lvl[H.best_ask].head ELSE None)

RECURSIVE RightMost(_, _)
RightMost(H, n) ==
    IF Truthy(H, H.lvl[n].right_child) THEN RightMost(H, H.lvl[n].right_child) ELSE n

UpdateBestBid(H) ==
    IF H.exc THEN H
    ELSE IF H.bids = None THEN [H EXCEPT !.best_bid = None]
    ELSE [H EXCEPT !.best_bid = RightMost(H, H.bids)]

UpdateBestAsk(H) ==
    IF H.exc THEN H
    ELSE IF H.asks = None THEN [H EXCEPT !.best_ask = None]
    ELSE [H EXCEPT !.best_ask = TreeMin(H, H.asks)]

\* update(order, size_diff): the order object is the one the index holds, so
\* only the level's aggregate changes.
BookUpdate(H, o, size_diff) ==
    IF H.exc THEN H
    ELSE LET r == H.ord[o].root IN
         IF r = None THEN Raise(H)
         ELSE [H EXCEPT !.lvl[r].size = @ - size_diff]

\* A wider test than the lookup in _orders: the order object is linked in a
\* level's list.
LinkedInLevel(H, id) == H.ord[id].root # None

\* self._orders.pop(order.order_id) finds the id (no KeyError).
Indexed(H, id) == id \in H.orders

\* remove(order) that finds no order under any id: the KeyError branch
BookRemoveMissing(H, id) == IF H.exc THEN H ELSE [H EXCEPT !.ret = "False"]

\* remove(order): only the order id of the argument is read.  ret is the value
\* returned: False for an id that is not indexed, otherwise None (the method
\* ends without a return statement).
BookRemove(H, id) ==
    LET key == LevelKey(H, id)
        Best(G, n) ==
            IF H.ord[id].is_bid
            THEN (IF n = G.best_bid THEN UpdateBestBid(G) ELSE G)
            ELSE (IF n = G.best_ask THEN UpdateBestAsk(G) ELSE G)
        Level(G, n) ==
            IF G.exc THEN G
            ELSE IF n = None THEN G                     \* KeyError, printed
            ELSE IF G.lvl[n].count < 0 THEN Raise(G)    \* len() of a negative count
            ELSE IF G.lvl[n].count # 0 THEN G
            ELSE Best(LevelRemove([G EXCEPT !.pl[key] = None], n), n)
    IN  IF H.exc THEN H
        ELSE IF ~Indexed(H, id) THEN [H EXCEPT !.ret = "False"]   \* KeyError
        ELSE Level(PopFromList([H EXCEPT !.orders = @ \ {id}, !.ret = "None"], id),
                   H.pl[key])

\* add(order)
BookAdd(H, o) ==
    LET key == LevelKey(H, o)
        \* the new level is the best one if it beats the best of its side
        Best(G, n) ==
            IF G.exc THEN G
            ELSE IF H.ord[o].is_bid
            THEN (IF G.best_bid = None \/ G.lvl[n].price > G.lvl[G.best_bid].price
                  THEN [G EXCEPT !.best_bid = n]
                  ELSE G)
            ELSE (IF G.best_ask = None \/ G.lvl[n].price < G.lvl[G.best_ask].price
                  THEN [G EXCEPT !.best_ask = n]
                  ELSE G)
        \* except Exception: index the order and append it to the level again
        Handler(G) ==
            IF ~G.exc THEN G
            ELSE IF G.pl[key] = None THEN G
            ELSE OrderListAppend([G EXCEPT !.exc = FALSE, !.orders = @ \cup {o}],
                                 G.pl[key], o)
        NewLevel(n) ==
            Handler(Best(TreeInsert([NewLimitLevel(H, n, o) EXCEPT
                                        !.orders = @ \cup {o}, !.pl[key] = n],
                                    IF H.ord[o].is_bid THEN BidsTree ELSE AsksTree,
                                    n),
                         n))
    IN  IF H.exc THEN H
        ELSE IF H.pl[key] = None THEN NewLevel(NewNode(H))
        ELSE \* except Exception: print
             Caught(OrderListAppend([H EXCEPT !.orders = @ \cup {o}], H.pl[key], o))

\* process(order, quantity), for an order object of the heap.
BookProcess(H, o, quantity) ==
    IF H.exc THEN H
    ELSE IF H.ord[o].size = 0 THEN BookRemove(H, o)
    ELSE IF o \in H.orders THEN BookUpdate(H, o, quantity)
    ELSE BookAdd(H, o)

\* ---- ParticipantManager / Participant

\* A variant of receive_execution_report in which a sale leaves the seller's
\* position as it was.
ReceiveExecutionReportCashOnly(H, p, side, price, qty) ==
    IF side = "buy"
    THEN [H EXCEPT !.bal[p] = @ - price * qty, !.port[p] = @ + qty]
    ELSE [H EXCEPT !.bal[p] = @ + price * qty]

\* Participant.receive_execution_report
ReceiveExecutionReport(H, p, side, price, qty) ==
    IF side = "buy"
    THEN [H EXCEPT !.bal[p] = @ - price * qty, !.port[p] = @ + qty]
    ELSE [H EXCEPT !.bal[p] = @ + price * qty, !.port[p] = @ - qty]

\* ParticipantManager.send_execution_report: the buyer's report, then the
\* seller's.
SendExecutionReport(H, t) ==
    IF H.exc THEN H
    ELSE LET H1 == ReceiveExecutionReport(H, t.buyer, "buy", t.buy_price, t.quantity)
             H2 == ReceiveExecutionReport(H1, t.seller, "sell", t.sell_price, t.quantity)
         IN [H2 EXCEPT !.reports = Append(@, t)]

Min(a, b) == IF a < b THEN a ELSE b

\* ---- MatchEngine (MatchEngine.py).  H.brk records that the loop was left by
\* a break.

Break(H) == [H EXCEPT !.brk = TRUE]

\* A variant that rounds the affordable quantity up.
AffordableQuantityRoundedUp(buyer_balance, price) ==
    (buyer_balance + price - 1) \div price

\* int(balance // price): the units the buyer's balance pays for.
AffordableQuantity(buyer_balance, price) == buyer_balance \div price

\* Lines 53-69: the trade of a limit aggressor a with the resting order opp.
LimitTrade(H, a, opp, buy, sell, qty) ==
    LET H1 == [H EXCEPT !.ord[a].size = @ - qty, !.ord[opp].size = @ - qty]
        H2 == SendExecutionReport(H1,
                 [buyer |-> H.ord[buy].participant_id,
                  seller |-> H.ord[sell].participant_id,
                  buyer_order_id |-> buy, seller_order_id |-> sell,
                  buy_price |-> H.ord[buy].price, sell_price |-> H.ord[sell].price,
                  quantity |-> qty, resting |-> opp,
                  resting_price |-> H.ord[opp].price])
    IN BookProcess(BookProcess(H2, a, qty), opp, qty)

\* One pass through the body of the loop of acceptLimitOrder, aggressor a.
LimitBody(H, a) ==
    LET opp == TopLevel(H, ~H.ord[a].is_bid)
        buy == IF H.ord[a].is_bid THEN a ELSE opp
        sell == IF H.ord[a].is_bid THEN opp ELSE a
        buyer_balance == H.bal[H.ord[buy].participant_id]
        total_cost == Min(H.ord[a].size, H.ord[opp].size) * H.ord[buy].price
        \* trade_quantity as it stands at "if processThisOne"
        trade_quantity ==
            IF buyer_balance < total_cost
            THEN AffordableQuantity(buyer_balance, H.ord[buy].price)
            ELSE Min(H.ord[a].size, H.ord[opp].size)
        BreakIfBid(G) == IF H.ord[a].is_bid THEN Break(G) ELSE G
    IN  IF \/ opp = None
           \/ (IF H.ord[a].is_bid THEN H.ord[a].price < H.ord[opp].price
                                  ELSE H.ord[a].price > H.ord[opp].price)
        THEN Break(BookProcess(H, a, 0))
        ELSE \* a self-trade is detected and ignored (pass)
             IF buyer_balance < total_cost /\ trade_quantity <= 0
             THEN BreakIfBid(BookProcess(BookRemove(H, buy), sell, 0))
             ELSE LimitTrade(H, a, opp, buy, sell, trade_quantity)

\* The loop condition of acceptLimitOrder.
LimitCond(H, a) == H.ord[a].size > 0

\* The market aggressor is the record H.mkt (it is never linked into the book).
MarketCond(H) == H.mkt.size > 0 /\ TopLevel(H, H.mkt.is_bid) # None

MarketTrade(H, opp, qty) ==
    LET price == H.ord[opp].price
        H1 == [H EXCEPT !.ord[opp].size = @ - qty, !.mkt.size = @ - qty]
        H2 == SendExecutionReport(H1,
                 [buyer |-> IF H.mkt.is_bid THEN H.mkt.participant_id
                            ELSE H.ord[opp].participant_id,
                  seller |-> IF H.mkt.is_bid THEN H.ord[opp].participant_id
                             ELSE H.mkt.participant_id,
                  buyer_order_id |-> IF H.mkt.is_bid THEN MarketId ELSE opp,
                  seller_order_id |-> IF H.mkt.is_bid THEN opp ELSE MarketId,
                  buy_price |-> price, sell_price |-> price,
                  quantity |-> qty, resting |-> opp,
                  resting_price |-> H.ord[opp].price])
    IN BookProcess(H2, opp, qty)

\* A variant of the body of the loop of acceptMarketOrder without the test of
\* the participants and without the test of the balance.
MarketBodyAnyOwner(H) ==
    LET opp == TopLevel(H, ~H.mkt.is_bid)
    IN  IF opp = None THEN Break(H)
        ELSE MarketTrade(H, opp, Min(H.mkt.size, H.ord[opp].size))

\* One pass through the body of the loop of acceptMarketOrder.
MarketBody(H) ==
    LET opp == TopLevel(H, ~H.mkt.is_bid)
        trade_price == H.ord[opp].price
        total_cost == trade_price * Min(H.mkt.size, H.ord[opp].size)
        buyBalance == IF H.mkt.is_bid THEN H.bal[H.mkt.participant_id]
                                      ELSE H.bal[H.ord[opp].participant_id]
        \* trade_quantity as it stands at "if processThisOne"
        trade_quantity ==
            IF buyBalance < total_cost
            THEN AffordableQuantity(buyBalance, trade_price)
            ELSE Min(H.mkt.size, H.ord[opp].size)
    IN  IF opp = None THEN Break(H)
        ELSE IF H.mkt.participant_id = H.ord[opp].participant_id THEN Break(H)
        ELSE IF buyBalance < total_cost /\ trade_quantity <= 0
        THEN (IF H.mkt.is_bid THEN Break(H) ELSE BookRemove(H, opp))
        ELSE MarketTrade(H, opp, trade_quantity)

\* ---- the worker of the symbol (OrderQueue.py, _process_ticker_orders)

NoMarket == [size |-> 0, is_bid |-> FALSE, participant_id |-> ""]
Idle == [type |-> "idle", id |-> None, mkt |-> NoMarket]
Dead == [type |-> "dead", id |-> None, mkt |-> NoMarket]

\* The state of the program as the heap the handlers work on.
Heap ==
    [ord |-> ord, lvl |-> lvl, pl |-> price_levels, orders |-> orders,
     bids |-> bids, asks |-> asks, best_bid |-> best_bid, best_ask |-> best_ask,
     bal |-> balance, port |-> portfolio, mkt |-> cur.mkt,
     exc |-> FALSE, brk |-> FALSE, reports |-> <<>>, ret |-> "None"]

\* Objects no reference leads to any more are gone (Python frees them): their
\* records are reset, so that two heaps that differ only in garbage are the
\* same state.  The references are the fields of the book, the order the
\* worker holds, and the link fields of the objects reached from them.
\* An object is named by one integer: order o by o, node n by -n.
Refs(H, x) ==
    IF x > 0
    THEN {y \in {H.ord[x].next_item, H.ord[x].previous_item} : y > 0}
            \cup {-n : n \in {H.ord[x].root} \ {None}}
    ELSE {y \in {H.lvl[-x].head, H.lvl[-x].tail} : y > 0}
            \cup {-n : n \in {m \in {H.lvl[-x].parent, H.lvl[-x].left_child,
                                      H.lvl[-x].right_child} : m > 0}}

RECURSIVE Reachable(_, _, _)
Reachable(H, seen, frontier) ==
    IF frontier = {} THEN seen
    ELSE LET new == UNION {Refs(H, x) : x \in frontier} \ seen
         IN Reachable(H, seen \cup new, new)

Collect(H, held) ==
    LET roots == H.orders \cup ({held} \ {None})
                   \cup {-n : n \in {m \in {H.pl[k] : k \in LevelKeys}
                                       \cup {H.bids, H.asks, H.best_bid, H.best_ask}
                                    : m > 0}}
        Keep(R) ==
            [H EXCEPT !.ord = [o \in OrderIds |-> IF o \in R THEN H.ord[o] ELSE NoOrder],
                      !.lvl = [n \in NodeIds |-> IF -n \in R THEN H.lvl[n] ELSE NoLevel]]
    IN Keep(Reachable(H, roots, roots))

\* get_best_price(askForBid): the price of the best level, None when there is
\* none or when its list is empty.
GetBestPrice(H, askForBid) ==
    LET n == IF askForBid THEN H.best_bid ELSE H.best_ask
    IN  IF Truthy(H, n) THEN H.lvl[n].price ELSE None

\* get_order_book(): the (price, size) pairs of the bid levels priced below
\* the best ask and of the ask levels priced above the best bid, from the
\* dictionary of levels; both lists are empty when an exception is caught
\* (the truth value of a level whose count is negative).  The pairs of a side
\* have different prices, so the sorted list is given as a set.
GetOrderBook(H) ==
    LET Bad(n) == n # None /\ H.lvl[n].count < 0
        bb == GetBestPrice(H, TRUE)
        ba == GetBestPrice(H, FALSE)
        Side(is_bid) ==
            {<<k[1], H.lvl[H.pl[k]].size>> :
                k \in {j \in LevelKeys :
                          /\ H.pl[j] # None
                          /\ j[2] = is_bid
                          /\ IF is_bid THEN ba = None \/ j[1] < ba
                                       ELSE bb = None \/ j[1] > bb}}
    IN  IF Bad(H.best_bid) \/ Bad(H.best_ask)
        THEN [bids |-> {}, asks |-> {}]
        ELSE [bids |-> Side(TRUE), asks |-> Side(FALSE)]

RECURSIVE Sorted(_, _)
\* list.sort() of a set of prices, list.sort(reverse=True) when reverse
Sorted(S, reverse) ==
    IF S = {} THEN <<>>
    ELSE LET x == CHOOSE y \in S : \A z \in S : IF reverse THEN z <= y ELSE z >= y
         IN  <<x>> \o Sorted(S \ {x}, reverse)

\* get_order_book(depth): the lists of (price, size) pairs, bids by falling
\* and asks by rising price, cut to the first depth entries when a depth is
\* given (has_depth: depth is not None).
GetOrderBookDepth(H, has_depth, depth) ==
    LET Bad(n) == n # None /\ H.lvl[n].count < 0
        best_bid_price == GetBestPrice(H, TRUE)       \* None stands for -inf
        best_ask_price == GetBestPrice(H, FALSE)      \* None stands for inf
        Keys(is_bid) == {k[1] : k \in {j \in LevelKeys : H.pl[j] # None /\ j[2] = is_bid}}
        BelowAsk(price) == best_ask_price = None \/ price < best_ask_price
        AboveBid(price) == best_bid_price = None \/ price > best_bid_price
        Pair(seq, is_bid) == [i \in DOMAIN seq |-> <<seq[i], H.lvl[H.pl[<<seq[i], is_bid>>]].size>>]
        Cut(seq) == IF has_depth THEN SubSeq(seq, 1, Min(depth, Len(seq))) ELSE seq
    IN  IF Bad(H.best_bid) \/ Bad(H.best_ask)
        THEN [bids |-> <<>>, asks |-> <<>>]
        ELSE [bids |-> Cut(Pair(SelectSeq(Sorted(Keys(TRUE), TRUE), BelowAsk), TRUE)),
              asks |-> Cut(Pair(SelectSeq(Sorted(Keys(FALSE), FALSE), AboveBid), FALSE))]

\* History of the book for a running call of get_order_book: what the call
\* would return on every state the book goes through while it runs.
Observe(H) ==
    IF snap.pc = "idle" THEN snap
    ELSE [snap EXCEPT !.seen = @ \cup {GetOrderBookDepth(H, FALSE, 0)}]

\* Store the heap H back; c is the worker's new position.  An exception that
\* leaves the handler ends the worker thread.
Store(H, c) ==
    /\ ord' = H.ord
    /\ lvl' = H.lvl
    /\ price_levels' = H.pl
    /\ orders' = H.orders
    /\ bids' = H.bids
    /\ asks' = H.asks
    /\ best_bid' = H.best_bid
    /\ best_ask' = H.best_ask
    /\ balance' = H.bal
    /\ portfolio' = H.port
    /\ reports' = H.reports
    /\ cur' = IF H.exc THEN Dead ELSE c
    /\ snap' = Observe(H)

Commit(H, c) == Store(Collect(H, IF H.exc THEN None ELSE c.id), c)

\* A step may create two LimitLevel objects.
CanAllocate == Cardinality(FreeNodes(Heap)) >= 2

\* After a pass: back to the queue after a break, an exception or a false
\* loop condition, otherwise on to the next pass.
LimitNext(H, a) ==
    Commit(H, IF H.brk \/ H.exc \/ ~LimitCond(H, a) THEN Idle
              ELSE [type |-> "limit", id |-> a, mkt |-> NoMarket])

LimitStep(H, a) == LimitNext(LimitBody(H, a), a)

MarketNext(H) ==
    Commit(H, IF H.brk \/ H.exc \/ ~MarketCond(H) THEN Idle
              ELSE [type |-> "market", id |-> None, mkt |-> H.mkt])

MarketStep(H) == MarketNext(MarketBody(H))

\* The worker runs a handler inside "with self.conditions[ticker]": it holds
\* the lock of the condition from popleft until the handler returns or raises.
Hold(w) == condition' = IF cur'.type \in {"limit", "market"} THEN w ELSE None

\* the worker of the symbol, where there is exactly one
Worker == CHOOSE w \in workers : TRUE

\* acceptLimitOrder for the limit order id, a new Order object, up to the end
\* of the first pass of its loop.
StartLimitOrder(id, p, is_bid, price, size) ==
    LimitStep([Heap EXCEPT !.ord[id] =
                  [NoOrder EXCEPT !.price = price, !.size = size,
                                  !.is_bid = is_bid, !.participant_id = p]],
              id)

\* acceptMarketOrder up to the end of the first pass of its loop.
StartMarketOrder(p, is_bid, size) ==
    LET H == [Heap EXCEPT !.mkt = [size |-> size, is_bid |-> is_bid,
                                   participant_id |-> p]]
    IN IF MarketCond(H) THEN MarketStep(H) ELSE Commit(H, Idle)

\* A limit order is put into the empty queue and the worker takes it at once:
\* a new Order object with a new id, and acceptLimitOrder up to the end of the
\* first pass of its loop.  At most max_orders limit orders are created in a
\* run.
AcceptLimitOrder(max_orders, p, is_bid, price, size) ==
    /\ cur.type = "idle"
    /\ queue = <<>>
    /\ next_id <= max_orders
    /\ CanAllocate
    /\ next_id' = next_id + 1
    /\ UNCHANGED <<queue, now, returned, setup, registry>>
    /\ StartLimitOrder(next_id, p, is_bid, price, size)
    /\ Hold(Worker)

\* A further pass of the loop of acceptLimitOrder.
ContinueLimitOrder ==
    /\ cur.type = "limit"
    /\ CanAllocate
    /\ next_id' = next_id
    /\ UNCHANGED <<queue, now, returned, setup, registry>>
    /\ LimitStep(Heap, cur.id)
    /\ Hold(condition)

\* A market order is put into the empty queue and the worker takes it at once.
AcceptMarketOrder(p, is_bid, size) ==
    /\ cur.type = "idle"
    /\ queue = <<>>
    /\ CanAllocate
    /\ next_id' = next_id
    /\ UNCHANGED <<queue, now, returned, setup, registry>>
    /\ StartMarketOrder(p, is_bid, size)
    /\ Hold(Worker)

ContinueMarketOrder ==
    /\ cur.type = "market"
    /\ CanAllocate
    /\ next_id' = next_id
    /\ UNCHANGED <<queue, now, returned, setup, registry>>
    /\ MarketStep(Heap)
    /\ Hold(condition)

\* process(order, 0) taking the cancel command for an order to add: the command
\* object (no price, size 0) is indexed under the id it names.
AcceptCancelOrderRests(id) ==
    /\ cur.type = "idle"
    /\ queue = <<>>
    /\ next_id' = next_id
    /\ UNCHANGED <<queue, now, returned, setup, condition, registry>>
    /\ Commit([Heap EXCEPT !.ord[id] = [NoOrder EXCEPT !.is_bid = TRUE],
                           !.orders = @ \cup {id}], Idle)

\* A cancel command is put into the empty queue and the worker takes it at
\* once: process(order, 0) with order.size = 0.
AcceptCancelOrder(id) ==
    /\ cur.type = "idle"
    /\ queue = <<>>
    /\ next_id' = next_id
    /\ UNCHANGED <<queue, now, returned, setup, condition, registry>>
    /\ Commit(BookRemove(Heap, id), Idle)

\* A new LimitOrderBook, the participants with their starting balances, an
\* empty queue.
InitBook(start) ==
    /\ ord = [o \in OrderIds |-> NoOrder]
    /\ lvl = [n \in NodeIds |-> NoLevel]
    /\ price_levels = [k \in LevelKeys |-> None]
    /\ orders = {}
    /\ bids = None
    /\ asks = None
    /\ best_bid = None
    /\ best_ask = None
    /\ balance = start
    /\ portfolio = [p \in DOMAIN start |-> 0]
    /\ cur = Idle
    /\ next_id = 1
    /\ reports = <<>>
    /\ queue = <<>>
    /\ now = 1
    /\ returned = None
    /\ race = [s \in Symbols |-> NoTrade]
    /\ portfolio_other = [p \in Participants |-> 0]
    /\ snap = NoCall
    /\ submitted = <<>>

\* The state after OrderBookManager.add_order_book(symbol) has been called
\* once: one book, its engine, its queue and its worker, which waits.
InitWith(start) ==
    /\ InitBook(start)
    /\ pc = [t \in Threads |-> "idle"]
    /\ made = 1
    /\ mine = [t \in Threads |-> None]
    /\ order_books = 1
    /\ match_engines = 1
    /\ has_queue = TRUE
    /\ lock = None
    /\ workers = {1}
    /\ condition = None
    /\ match_engine = 1

\* ---- Spec: both participants send every kind of command.
StartBalances == [p \in Participants |-> IF p = "P1" THEN 3 ELSE 6]

Init == InitWith(StartBalances)

Next ==
    \/ \E p \in Participants, b \in BOOLEAN, price \in 1..MaxPrice, size \in 1..MaxSize :
          AcceptLimitOrder(MaxOrders, p, b, price, size)
    \/ ContinueLimitOrder
    \/ \E p \in Participants, b \in BOOLEAN, size \in 1..MaxSize :
          AcceptMarketOrder(p, b, size)
    \/ ContinueMarketOrder
    \/ \E id \in 1..MaxOrders : AcceptCancelOrder(id)

Spec == Init /\ [][Next]_vars

\* ---- SpecLevels: P2 buys one unit per order on every price, P1 sells one unit
\* per limit order at the lowest or at the highest price, or two units at the
\* market; both can pay for everything they buy.
LevelsBalances == [p \in Participants |-> 2 * LevelsOrders * LevelsPrice]

InitLevels == InitWith(LevelsBalances)

NextLevels ==
    \/ \E price \in 1..LevelsPrice :
          AcceptLimitOrder(LevelsOrders, "P2", TRUE, price, 1)
    \/ \E price \in {1, LevelsPrice} :
          AcceptLimitOrder(LevelsOrders, "P1", FALSE, price, 1)
    \/ ContinueLimitOrder
    \/ AcceptMarketOrder("P1", FALSE, 2)
    \/ ContinueMarketOrder
    \/ \E id \in 1..LevelsOrders : AcceptCancelOrder(id)

SpecLevels == InitLevels /\ [][NextLevels]_vars

\* ---- SpecQueue: the participants put commands into the queue of the symbol
\* while the worker takes them out; P2 buys and P1 sells.

\* put_order with every command at the front (appendleft)
PutOrderFront(order) == has_queue /\ queue' = <<order>> \o queue

\* put_order with every command at the back (append)
PutOrderBack(order) == has_queue /\ queue' = Append(queue, order)

\* put_order: a command without a price goes to the front of the deque, a
\* priced one to the back (prices are integers: round(price, 2) keeps them).
\* Without a queue for the symbol it raises ValueError, which the caller
\* catches: nothing is put anywhere.
PutOrder(order) ==
    /\ has_queue
    /\ queue' = IF order.price = None THEN <<order>> \o queue ELSE Append(queue, order)

\* put_order takes the lock of the symbol's condition, which the worker holds
\* from popleft to the end of the handler and releases while it waits.
LockFree == condition = None

\* the symbol of the book; every other symbol has no queue
Symbol == "X"

\* _place_order_in_queue with the balance test left out
CoveredAlways(p, is_bid, price, size) == TRUE

\* _place_order_in_queue: a limit buy is refused when the balance is below
\* price * size.
Covered(p, is_bid, price, size) == ~(is_bid /\ balance[p] < price * size)

\* Participant.create_limit_order(price, size, side, symbol) of participant p
\* (who has an order_queue_manager): Order.create_limit_order raises
\* ValueError for a price <= 0, a size <= 0 and a side that is neither 'buy'
\* nor 'sell'; _place_order_in_queue refuses a buy the balance does not cover,
\* and put_order raises ValueError for a symbol without a queue.  In all these
\* cases None is returned; otherwise the order, with a new id and the time of
\* its creation, is put into the queue and its id is returned.
CreateLimitOrder(p, price, size, side, symbol) ==
    IF /\ price > 0
       /\ size > 0
       /\ side \in {"buy", "sell"}
       /\ Covered(p, side = "buy", price, size)
       /\ symbol = Symbol
       /\ has_queue
    THEN /\ LockFree
         /\ now <= QueueCommands
         /\ next_id <= QueueOrders
         /\ PutOrder([type |-> "limit", id |-> next_id, participant_id |-> p,
                      is_bid |-> (side = "buy"), price |-> price, size |-> size,
                      timestamp |-> now])
         /\ returned' = next_id
         /\ next_id' = next_id + 1
         /\ now' = now + 1
         /\ UNCHANGED <<book, balance, portfolio, cur, reports, setup, condition,
                        registry, snap>>
    ELSE /\ returned' = None
         /\ UNCHANGED <<book, balance, portfolio, cur, reports, setup, condition,
                        queue, next_id, now, registry, snap>>

\* Participant.create_market_order
CreateMarketOrder(p, is_bid, size) ==
    /\ LockFree
    /\ now <= QueueCommands
    /\ PutOrder([type |-> "market", id |-> MarketId, participant_id |-> p,
                 is_bid |-> is_bid, price |-> None, size |-> size,
                 timestamp |-> now])
    /\ now' = now + 1
    /\ UNCHANGED <<book, balance, portfolio, cur, reports, next_id, returned, setup,
                   condition, registry, snap>>

\* Participant.remove_order for an order id that create_limit_order returned
RemoveOrder(p, id) ==
    /\ LockFree
    /\ now <= QueueCommands
    /\ id < next_id
    /\ PutOrder([type |-> "cancel", id |-> id, participant_id |-> p,
                 is_bid |-> TRUE, price |-> None, size |-> 0,
                 timestamp |-> now])
    /\ now' = now + 1
    /\ UNCHANGED <<book, balance, portfolio, cur, reports, next_id, returned, setup,
                   condition, registry, snap>>

\* _process_ticker_orders: the worker takes the command at the front of the
\* deque and runs its handler up to the end of the first pass of its loop.
\* The command is dropped when order_books has no entry for the symbol, and
\* the worker dies of a KeyError when match_engines has none.
ProcessTickerOrders(w) ==
    /\ w \in workers
    /\ cur.type = "idle"
    /\ condition = None
    /\ queue # <<>>
    /\ order_books = None \/ match_engine = match_engines
    /\ queue' = Tail(queue)
    /\ UNCHANGED <<next_id, now, returned, setup, registry>>
    /\ LET order == Head(queue)
       IN IF order_books = None
          THEN UNCHANGED <<book, balance, portfolio, cur, reports, snap>>
          ELSE IF match_engines = None
          THEN /\ cur' = Dead
               /\ UNCHANGED <<book, balance, portfolio, reports, snap>>
          ELSE CASE order.type = "limit" ->
                  /\ CanAllocate
                  /\ StartLimitOrder(order.id, order.participant_id, order.is_bid,
                                     order.price, order.size)
            [] order.type = "market" ->
                  /\ CanAllocate
                  /\ StartMarketOrder(order.participant_id, order.is_bid, order.size)
            [] order.type = "cancel" ->
                  Commit(BookRemove(Heap, order.id), Idle)
    /\ Hold(w)

NextQueue ==
    \/ \E price \in 1..QueuePrice, size \in 1..MaxSize :
          CreateLimitOrder("P2", price, size, "buy", Symbol)
    \/ \E price \in 1..QueuePrice, size \in 1..MaxSize :
          CreateLimitOrder("P1", price, size, "sell", Symbol)
    \/ \E p \in Participants : CreateMarketOrder(p, p = "P2", MaxSize)
    \/ \E p \in Participants, id \in 1..QueueOrders : RemoveOrder(p, id)
    \/ \E w \in workers : ProcessTickerOrders(w)
    \/ ContinueLimitOrder
    \/ ContinueMarketOrder

SpecQueue == Init /\ [][NextQueue]_vars

\* Limit orders at the prices 1 and RangePrice, and their cancels.
NextRange ==
    \/ \E p \in Participants, is_bid \in BOOLEAN, price \in {1, RangePrice},
          size \in 1..MaxSize : AcceptLimitOrder(MaxOrders, p, is_bid, price, size)
    \/ ContinueLimitOrder
    \/ \E id \in 1..MaxOrders : AcceptCancelOrder(id)

SpecRange == Init /\ [][NextRange]_vars

\* ---------------------------------------------------------------------------
\* A viewer thread inside LimitOrderBook.get_order_book() while the worker of
\* the symbol runs.  The call takes no lock; a step of it is one of its
\* statements (the loop over the keys and each list comprehension are taken
\* as one step each).
\* ---------------------------------------------------------------------------

\* everything a viewer only reads
exchange == <<book, balance, portfolio, cur, next_id, reports, queue, now, returned,
              condition, registry, setup>>

\* "for (price, is_bid) in self._price_levels.keys()" and the two sorts; the
\* call begins
GetKeys ==
    /\ snap.pc = "idle"
    /\ snap' = [NoCall EXCEPT
                  !.pc = "best",
                  !.bid_keys = Sorted({k[1] : k \in {j \in LevelKeys :
                                  price_levels[j] # None /\ j[2]}}, TRUE),
                  !.ask_keys = Sorted({k[1] : k \in {j \in LevelKeys :
                                  price_levels[j] # None /\ ~j[2]}}, FALSE),
                  !.seen = {GetOrderBookDepth(Heap, FALSE, 0)}]
    /\ UNCHANGED exchange

\* best_bid_price and best_ask_price (None stands for -inf and inf); the
\* truth value of a level with a negative count raises, and the call returns
\* two empty lists
GetBest ==
    /\ snap.pc = "best"
    /\ snap' = IF \/ (best_bid # None /\ lvl[best_bid].count < 0)
                  \/ (best_ask # None /\ lvl[best_ask].count < 0)
               THEN [snap EXCEPT !.pc = "done"]
               ELSE [snap EXCEPT !.pc = "bids",
                                 !.best_bid_price = GetBestPrice(Heap, TRUE),
                                 !.best_ask_price = GetBestPrice(Heap, FALSE)]
    /\ UNCHANGED exchange

\* the (price, size) pairs of the keys read before that are still keys of the
\* dictionary and on the right side of the best price read before
Pairs(keys, is_bid, bound) ==
    LET Listed(price) ==
            /\ bound = None \/ (IF is_bid THEN price < bound ELSE price > bound)
            /\ price_levels[<<price, is_bid>>] # None
        kept == SelectSeq(keys, Listed)
    IN  [i \in DOMAIN kept |-> <<kept[i], lvl[price_levels[<<kept[i], is_bid>>]].size>>]

\* bids_all
BuildBids ==
    /\ snap.pc = "bids"
    /\ snap' = [snap EXCEPT !.pc = "asks",
                            !.bids = Pairs(snap.bid_keys, TRUE, snap.best_ask_price)]
    /\ UNCHANGED exchange

\* asks_all; the call has its result
BuildAsks ==
    /\ snap.pc = "asks"
    /\ snap' = [snap EXCEPT !.pc = "done",
                            !.asks = Pairs(snap.ask_keys, FALSE, snap.best_bid_price)]
    /\ UNCHANGED exchange

\* return {'bids': bids_all, 'asks': asks_all}
ReturnOrderBook ==
    /\ snap.pc = "done"
    /\ snap' = NoCall
    /\ UNCHANGED exchange

\* One buyer and one seller quoting single units at prices that do not
\* cross, their cancels, and a viewer.
NextSnapshot ==
    \/ AcceptLimitOrder(MaxOrders, "P2", TRUE, 1, 1)
    \/ AcceptLimitOrder(MaxOrders, "P1", FALSE, MaxPrice, 1)
    \/ \E id \in 1..MaxOrders : AcceptCancelOrder(id)
    \/ GetKeys
    \/ GetBest
    \/ BuildBids
    \/ BuildAsks
    \/ ReturnOrderBook

SpecSnapshot == Init /\ [][NextSnapshot]_vars

\* ---------------------------------------------------------------------------
\* The workers of two symbols inside the trade of acceptLimitOrder, statement
\* by statement: each has its own book and its own MatchEngine, both use the
\* one ParticipantManager.  Neither the engine nor the registry nor a
\* Participant takes a lock.  A trade here is a buy order against a sell
\* order of the other participant at the same price.
\* ---------------------------------------------------------------------------

\* everything but the registry
market == <<book, cur, next_id, reports, queue, now, returned, condition, setup, snap,
            submitted>>

\* the other participant
Other(p) == CHOOSE q \in Participants : q # p

\* Participant.__portfolio[symbol]
Position(s) == IF s = Symbol THEN portfolio ELSE portfolio_other

\* trade_quantity, buyer_balance = get_participant_balance(...), total_cost
\* and the cut to what the buyer can pay; without a unit to trade there is
\* no report
CheckBalance(s, buyer, price, size) ==
    LET buyer_balance == balance[buyer]
        trade_quantity == IF buyer_balance < size * price
                          THEN AffordableQuantity(buyer_balance, price)
                          ELSE size
    IN  /\ race[s].pc = "idle"
        /\ race[s].trades < RaceTrades
        /\ trade_quantity > 0
        /\ race' = [race EXCEPT ![s] =
                      [pc |-> "checked", buyer |-> buyer, seller |-> Other(buyer),
                       price |-> price, quantity |-> trade_quantity,
                       buyer_balance |-> buyer_balance, loaded |-> 0,
                       trades |-> race[s].trades + 1]]
        /\ UNCHANGED <<market, balance, portfolio, portfolio_other>>

\* receive_execution_report: "self.__balance -= price * qty" of the buyer and
\* "self.__balance += price * qty" of the seller read the attribute ...
LoadBalance(s) ==
    /\ race[s].pc \in {"checked", "buyer_done"}
    /\ race' = [race EXCEPT
                  ![s].pc = IF race[s].pc = "checked" THEN "buyer_loaded"
                                                      ELSE "seller_loaded",
                  ![s].loaded = IF race[s].pc = "checked" THEN balance[race[s].buyer]
                                                          ELSE balance[race[s].seller]]
    /\ UNCHANGED <<market, balance, portfolio, portfolio_other>>

\* ... and write it
StoreBalance(s) ==
    /\ race[s].pc \in {"buyer_loaded", "seller_loaded"}
    /\ balance' = IF race[s].pc = "buyer_loaded"
                  THEN [balance EXCEPT ![race[s].buyer] =
                            race[s].loaded - race[s].price * race[s].quantity]
                  ELSE [balance EXCEPT ![race[s].seller] =
                            race[s].loaded + race[s].price * race[s].quantity]
    /\ race' = [race EXCEPT ![s].pc = IF race[s].pc = "buyer_loaded"
                                      THEN "buyer_cash" ELSE "seller_cash"]
    /\ UNCHANGED <<market, portfolio, portfolio_other>>

\* "self.__portfolio[symbol] = self.__portfolio.get(symbol, 0) +/- qty"; after
\* the seller's the trade is settled
UpdatePortfolio(s) ==
    LET p == IF race[s].pc = "buyer_cash" THEN race[s].buyer ELSE race[s].seller
        to == IF race[s].pc = "buyer_cash" THEN Position(s)[p] + race[s].quantity
                                           ELSE Position(s)[p] - race[s].quantity
    IN  /\ race[s].pc \in {"buyer_cash", "seller_cash"}
        /\ portfolio' = IF s = Symbol THEN [portfolio EXCEPT ![p] = to] ELSE portfolio
        /\ portfolio_other' = IF s = Symbol THEN portfolio_other
                                            ELSE [portfolio_other EXCEPT ![p] = to]
        /\ race' = [race EXCEPT ![s] =
                      IF race[s].pc = "buyer_cash"
                      THEN [race[s] EXCEPT !.pc = "buyer_done"]
                      ELSE [NoTrade EXCEPT !.trades = race[s].trades]]
        /\ UNCHANGED <<market, balance>>

NextRegistry ==
    \/ \E s \in Symbols, buyer \in Participants, size \in 1..MaxSize :
          CheckBalance(s, buyer, QueuePrice, size)
    \/ \E s \in Symbols : LoadBalance(s)
    \/ \E s \in Symbols : StoreBalance(s)
    \/ \E s \in Symbols : UpdatePortfolio(s)

SpecRegistry == Init /\ [][NextRegistry]_vars

\* Submissions of every kind: good and bad sides, prices and sizes, the
\* symbol of the book and a symbol without a queue.
NextSubmit ==
    \/ \E p \in Participants, price \in {0, QueuePrice}, size \in {0, 1, MaxSize},
          side \in {"buy", "sell", "hold"}, symbol \in {Symbol, "Y"} :
          CreateLimitOrder(p, price, size, side, symbol)
    \/ \E w \in workers : ProcessTickerOrders(w)
    \/ ContinueLimitOrder

SpecSubmit == Init /\ [][NextSubmit]_vars

\* ---- SpecWait: the worker waiting on the condition of the symbol, and threads
\* that create orders at the price 1 (P2 buys one unit, P1 sells MaxSize
\* units) and cancels and hand them to put_order, as the unit tests do.

\* the worker is inside conditions[ticker].wait(): the lock is released
Waiting == [type |-> "wait", id |-> None, mkt |-> NoMarket]

\* "while not self.ticker_queues[ticker]: self.conditions[ticker].wait()": the
\* worker, holding the lock, finds the queue empty and waits
Wait(w) ==
    /\ w \in workers
    /\ cur.type = "idle"
    /\ condition = None
    /\ queue = <<>>
    /\ cur' = Waiting
    /\ UNCHANGED <<book, balance, portfolio, next_id, reports, queue, now, returned,
                   setup, condition, registry, snap>>

\* "self.conditions[order.symbol].notify()": a waiting worker wakes up and
\* goes back to the test of its loop
Notify == cur' = IF cur.type = "wait" THEN Idle ELSE cur

\* Order.create_limit_order and put_order, under the lock of the condition
PutLimitOrder(p, is_bid, price, size) ==
    /\ LockFree
    /\ now <= WaitCommands
    /\ next_id <= LevelsOrders
    /\ PutOrder([type |-> "limit", id |-> next_id, participant_id |-> p,
                 is_bid |-> is_bid, price |-> price, size |-> size,
                 timestamp |-> now])
    /\ Notify
    /\ next_id' = next_id + 1
    /\ now' = now + 1
    /\ UNCHANGED <<book, balance, portfolio, reports, returned, setup, condition,
                   registry, snap>>

\* Order.create_cancel_order for the id of an order created before, and
\* put_order
PutCancelOrder(p, id) ==
    /\ LockFree
    /\ now <= WaitCommands
    /\ id < next_id
    /\ PutOrder([type |-> "cancel", id |-> id, participant_id |-> p,
                 is_bid |-> TRUE, price |-> None, size |-> 0,
                 timestamp |-> now])
    /\ Notify
    /\ now' = now + 1
    /\ UNCHANGED <<book, balance, portfolio, reports, next_id, returned, setup,
                   condition, registry, snap>>

NextWait ==
    \/ PutLimitOrder("P2", TRUE, 1, 1)
    \/ PutLimitOrder("P1", FALSE, 1, MaxSize)
    \/ \E id \in 1..LevelsOrders : PutCancelOrder("P2", id)
    \/ \E w \in workers : Wait(w)
    \/ \E w \in workers : ProcessTickerOrders(w)
    \/ ContinueLimitOrder

\* The worker can take a command: the guard of ProcessTickerOrders, a step that
\* always changes the queue.
CanDequeue ==
    /\ cur.type = "idle"
    /\ condition = None
    /\ queue # <<>>
    /\ order_books = None \/ match_engine = match_engines
    /\ order_books # None /\ match_engines # None
            /\ Head(queue).type \in {"limit", "market"}
          => CanAllocate

\* The next pass of the loop of acceptLimitOrder leaves every object as it
\* is and the loop goes on: the worker runs, and the state stays the same.
Spinning ==
    /\ cur.type = "limit"
    /\ LET H == LimitBody(Heap, cur.id)
           R == Collect(H, IF H.exc THEN None ELSE cur.id)
       IN /\ ~(H.brk \/ H.exc \/ ~LimitCond(H, cur.id))
          /\ <<R.ord, R.lvl, R.pl, R.orders, R.bids, R.asks, R.best_bid,
               R.best_ask>> = book
          /\ R.bal = balance
          /\ R.port = portfolio
          /\ R.reports = reports
          /\ Observe(R) = snap

\* A further pass of the loop is due and changes the state.
CanContinue == cur.type = "limit" /\ CanAllocate /\ ~Spinning

\* The worker thread is scheduled again and again: weak fairness of each of
\* its three steps.  For the two steps that run a handler, ENABLED <<A>>_vars
\* is written out as the state predicate above it.
FairWait ==
    /\ WF_vars(\E w \in workers : Wait(w))
    /\ []<>(~CanDequeue) \/ []<><<\E w \in workers : ProcessTickerOrders(w)>>_vars
    /\ []<>(~CanContinue) \/ []<><<ContinueLimitOrder>>_vars

SpecWait == InitLevels /\ [][NextWait]_vars

SpecWaitFair == SpecWait /\ FairWait

\* ---- SpecShort: participants short of cash.  Each can pay for one unit at
\* the price 1 and for nothing else.
ShortBalances == [p \in Participants |-> 1]

InitShort == InitWith(ShortBalances)

NextShort ==
    \/ \E p \in Participants, is_bid \in BOOLEAN, price \in 1..QueuePrice,
          size \in 1..MaxSize : AcceptLimitOrder(MaxOrders, p, is_bid, price, size)
    \/ ContinueLimitOrder

SpecShort == InitShort /\ [][NextShort]_vars

\* ---------------------------------------------------------------------------
\* The unit test test_concurrent_2_asks_2_bids_same_time: four threads, each
\* putting one limit order into the queue of the symbol, and the worker.
\* ---------------------------------------------------------------------------

\* the balance a Participant is created with
DefaultBalance == 100000

\* setUp: the participants P1, P2 and P3
TestBalances == [p \in {"P1", "P2", "P3"} |-> DefaultBalance]

InitTest == InitWith(TestBalances)

\* the thread of order i runs add_order: put_order(order)
AddOrder(i) ==
    /\ \A j \in DOMAIN submitted : submitted[j] # i
    /\ LockFree
    /\ PutOrder(TestOrders[i])
    /\ submitted' = Append(submitted, i)
    /\ UNCHANGED <<book, balance, portfolio, cur, reports, next_id, now, returned,
                   setup, condition, race, portfolio_other, snap>>

NextTest ==
    \/ \E i \in DOMAIN TestOrders : AddOrder(i)
    \/ \E w \in workers : ProcessTickerOrders(w)
    \/ ContinueLimitOrder

SpecTest == InitTest /\ [][NextTest]_vars

\* ---------------------------------------------------------------------------
\* Setting the symbol up: threads calling OrderBookManager.add_order_book and
\* PerTickerOrderQueue.create_ticker_queue, statement by statement.
\* ---------------------------------------------------------------------------
Goto(t, label) == pc' = [pc EXCEPT ![t] = label]

engine == <<balance, portfolio, cur, next_id, reports, queue, now, returned,
            condition, registry, snap>>

\* OrderBookManager.add_order_book is called
CallAddOrderBook(t) ==
    /\ pc[t] = "idle"
    /\ Goto(t, "check")
    /\ UNCHANGED <<book, engine, made, mine, order_books, match_engines, has_queue,
                   lock, workers, match_engine>>

\* "if symbol not in self.order_books"
CheckOrderBooks(t) ==
    /\ pc[t] = "check"
    /\ Goto(t, IF order_books = None THEN "new" ELSE "idle")
    /\ UNCHANGED <<book, engine, made, mine, order_books, match_engines, has_queue,
                   lock, workers, match_engine>>

\* "newOrderBook = LimitOrderBook(symbol); self.order_books[symbol] = newOrderBook"
NewOrderBook(t) ==
    /\ pc[t] = "new"
    /\ made' = made + 1
    /\ mine' = [mine EXCEPT ![t] = made + 1]
    /\ order_books' = made + 1
    /\ Goto(t, "book")
    /\ UNCHANGED <<book, engine, match_engines, has_queue, lock, workers, match_engine>>

\* PerTickerOrderQueue.add_order_book: "self.order_books[ticker] = book", the
\* same dictionary as the one of the OrderBookManager
SetOrderBook(t) ==
    /\ pc[t] = "book"
    /\ order_books' = mine[t]
    /\ Goto(t, "engine")
    /\ UNCHANGED <<book, engine, made, mine, match_engines, has_queue, lock, workers,
                   match_engine>>

\* "self.match_engines[ticker] = MatchEngine(book, pm)"
SetMatchEngine(t) ==
    /\ pc[t] = "engine"
    /\ match_engines' = mine[t]
    /\ Goto(t, "acquire")
    /\ UNCHANGED <<book, engine, made, mine, order_books, has_queue, lock, workers,
                   match_engine>>

\* PerTickerOrderQueue.create_ticker_queue is called directly
CallCreateTickerQueue(t) ==
    /\ pc[t] = "idle"
    /\ Goto(t, "acquire")
    /\ UNCHANGED <<book, engine, made, mine, order_books, match_engines, has_queue,
                   lock, workers, match_engine>>

\* create_ticker_queue without "with self.lock"
AcquireNothing(t) ==
    /\ pc[t] = "acquire"
    /\ Goto(t, "test")
    /\ UNCHANGED <<book, engine, made, mine, order_books, match_engines, has_queue,
                   lock, workers, match_engine>>

\* "with self.lock": entered when no other thread is inside
Acquire(t) ==
    /\ pc[t] = "acquire"
    /\ lock = None
    /\ lock' = t
    /\ Goto(t, "test")
    /\ UNCHANGED <<book, engine, made, mine, order_books, match_engines, has_queue,
                   workers, match_engine>>

\* "if ticker not in self.ticker_queues"
TestTickerQueues(t) ==
    /\ pc[t] = "test"
    /\ Goto(t, IF has_queue THEN "release" ELSE "create")
    /\ UNCHANGED <<book, engine, made, mine, order_books, match_engines, has_queue,
                   lock, workers, match_engine>>

\* the deque, the condition and the start of a worker thread for the symbol
StartWorker(t) ==
    /\ pc[t] = "create"
    /\ has_queue' = TRUE
    /\ workers' = workers \cup {Cardinality(workers) + 1}
    /\ Goto(t, "release")
    /\ UNCHANGED <<book, engine, made, mine, order_books, match_engines, lock,
                   match_engine>>

\* the end of "with self.lock"
Release(t) ==
    /\ pc[t] = "release"
    /\ lock' = IF lock = t THEN None ELSE lock
    /\ Goto(t, "idle")
    /\ UNCHANGED <<book, engine, made, mine, order_books, match_engines, has_queue,
                   workers, match_engine>>

\* "match_engine = self.match_engines[ticker]" when the entry is a new
\* MatchEngine: the worker works on its book, a new LimitOrderBook, from now on.
FetchMatchEngine(w) ==
    /\ w \in workers
    /\ cur.type = "idle"
    /\ condition = None
    /\ queue # <<>>
    /\ order_books # None
    /\ match_engines # None
    /\ match_engine # match_engines
    /\ match_engine' = match_engines
    /\ ord' = [o \in OrderIds |-> NoOrder]
    /\ UNCHANGED <<balance, portfolio, cur, next_id, reports, queue, now, returned,
                   registry, snap,
                   condition, pc, made, mine, order_books, match_engines, has_queue,
                   lock, workers>>
    /\ lvl' = [n \in NodeIds |-> NoLevel]
    /\ price_levels' = [k \in LevelKeys |-> None]
    /\ orders' = {}
    /\ bids' = None
    /\ asks' = None
    /\ best_bid' = None
    /\ best_ask' = None

\* Nothing is set up: no book, no engine, no queue, no worker.
InitWorkers ==
    /\ InitBook(StartBalances)
    /\ pc = [t \in Threads |-> "idle"]
    /\ made = 0
    /\ mine = [t \in Threads |-> None]
    /\ order_books = None
    /\ match_engines = None
    /\ has_queue = FALSE
    /\ lock = None
    /\ workers = {}
    /\ condition = None
    /\ match_engine = None

NextWorkers ==
    \/ \E t \in Threads : CallAddOrderBook(t)
    \/ \E t \in Threads : CheckOrderBooks(t)
    \/ \E t \in Threads : NewOrderBook(t)
    \/ \E t \in Threads : SetOrderBook(t)
    \/ \E t \in Threads : SetMatchEngine(t)
    \/ \E t \in Threads : CallCreateTickerQueue(t)
    \/ \E t \in Threads : Acquire(t)
    \/ \E t \in Threads : TestTickerQueues(t)
    \/ \E t \in Threads : StartWorker(t)
    \/ \E t \in Threads : Release(t)
    \/ CreateLimitOrder("P2", 1, MaxSize, "buy", Symbol)
    \/ CreateLimitOrder("P1", 1, 1, "sell", Symbol)
    \/ \E w \in workers : FetchMatchEngine(w)
    \/ \E w \in workers : ProcessTickerOrders(w)
    \/ ContinueLimitOrder

SpecWorkers == InitWorkers /\ [][NextWorkers]_vars


\* ---------------------------------------------------------------------------
\* Observations of a state
\* ---------------------------------------------------------------------------

Processed == cur.type = "idle"      \* the last command is fully processed

RECURSIVE Linked(_, _)
\* the orders met from order o on by next_item links
Linked(o, seen) ==
    IF o = None \/ o \in seen THEN seen
    ELSE Linked(ord[o].next_item, seen \cup {o})

\* the orders reached from the head of the list of level n
Fifo(n) == Linked(lvl[n].head, {})

RECURSIVE SumSizes(_)
SumSizes(S) ==
    IF S = {} THEN 0
    ELSE LET o == CHOOSE x \in S : TRUE IN ord[o].size + SumSizes(S \ {o})

\* the levels of the book, as get_order_book lists them
Levels == {k \in LevelKeys : price_levels[k] # None}

RestingBids == {o \in orders : ord[o].is_bid}
RestingAsks == {o \in orders : ~ord[o].is_bid}

\* the trades of limit aggressors among the reports of the last pass
LimitTrades ==
    {reports[i] : i \in {j \in DOMAIN reports :
                            /\ reports[j].buyer_order_id # MarketId
                            /\ reports[j].seller_order_id # MarketId}}

\* ---------------------------------------------------------------------------
\* Claims
\* ---------------------------------------------------------------------------

\* C1: after every fully processed command, when the book holds a resting bid
\* and a resting ask, every resting bid's price is strictly below every
\* resting ask's price (the book is not crossed).
C1_NoCrossedBook ==
    Processed =>
        \A b \in RestingBids, a \in RestingAsks : ord[b].price < ord[a].price

\* C2: after every processed command, every price level of the book holds at
\* least one order and its aggregate size is the sum of the sizes of the
\* orders in its list.
C2_LevelAggregate ==
    Processed =>
        \A k \in Levels :
            /\ lvl[price_levels[k]].count >= 1
            /\ lvl[price_levels[k]].size = SumSizes(Fifo(price_levels[k]))

\* C3: after every processed command, the order-id index and the lists of the
\* levels hold the same orders: an indexed order has size > 0 and is linked in
\* the list of the level of its own (price, side) and in no other, and every
\* order linked in a level's list is indexed.
C3_IndexMatchesFifos ==
    Processed =>
        /\ \A o \in orders :
              /\ ord[o].size > 0
              /\ \A k \in LevelKeys :
                    (k \in Levels /\ o \in Fifo(price_levels[k]))
                        <=> (k = <<ord[o].price, ord[o].is_bid>>)
        /\ \A k \in Levels : Fifo(price_levels[k]) \subseteq orders


\* C4: every participant's cash balance is >= 0 in every state, the states
\* between the passes of a command's loop included.
C4_BalancesNonNegative == \A p \in Participants : balance[p] >= 0

\* Between two passes of a limit order's loop: the affordability check has cut
\* the trade, so that the aggressor and the resting order both keep a
\* remainder and the buyer cannot pay for one more unit.
C4_Witness ==
    /\ cur.type = "limit"
    /\ reports # <<>>
    /\ reports[1].resting \in orders
    /\ ord[reports[1].resting].size > 0
    /\ ord[cur.id].size > 0
    /\ balance[reports[1].buyer] < reports[1].buy_price

RECURSIVE Total(_, _)
\* the sum of f over the participants in S
Total(f, S) ==
    IF S = {} THEN 0
    ELSE LET p == CHOOSE x \in S : TRUE IN f[p] + Total(f, S \ {p})

\* C5: each reported trade debits the buyer what it credits the seller (the
\* two prices of the report are equal), and the sum of all cash balances is
\* what it was at the start.
C5_CashConserved ==
    /\ \A i \in DOMAIN reports :
          reports[i].buy_price * reports[i].quantity
              = reports[i].sell_price * reports[i].quantity
    /\ Total(balance, Participants) = Total(StartBalances, Participants)

\* C6: every trade of a limit aggressor settles at the resting order's price
\* for the buyer and for the seller.
C6_RestingPrice ==
    \A t \in LimitTrades :
        /\ t.buy_price = t.resting_price
        /\ t.sell_price = t.resting_price

\* C7: the positions of all participants in the symbol sum to zero in every
\* state.
C7_PositionsSumToZero == Total(portfolio, Participants) = 0

\* A trade has moved a position from the seller to the buyer.
C7_Witness ==
    /\ reports # <<>>
    /\ reports[1].buyer # reports[1].seller
    /\ portfolio[reports[1].buyer] > 0
    /\ portfolio[reports[1].seller] < 0


\* The resting order of trade t is the buyer's (a bid).
RestingIsBid(t) == t.resting = t.buyer_order_id

\* C8: no trade involves a resting order while another order rests on the
\* same side at a strictly better price (higher for bids, lower for asks).
C8_PricePriority ==
    \A i \in DOMAIN reports :
        \A o \in orders :
            (o # reports[i].resting /\ ord[o].is_bid = RestingIsBid(reports[i]))
                => IF ord[o].is_bid THEN ord[o].price <= reports[i].resting_price
                                    ELSE ord[o].price >= reports[i].resting_price

\* the indexed orders of level k
RestingAt(k) == {o \in orders : <<ord[o].price, ord[o].is_bid>> = k}

\* C9: no resting order is filled while an order added earlier (a smaller id)
\* at the same price and side still rests with size > 0; and the orders of a
\* level are counted once each and linked in the order of their dequeueing.
C9_TimePriority ==
    /\ \A i \in DOMAIN reports :
          \A o \in RestingAt(<<reports[i].resting_price, RestingIsBid(reports[i])>>) :
              ~(o < reports[i].resting /\ ord[o].size > 0)
    /\ Processed =>
          \A k \in Levels :
              /\ lvl[price_levels[k]].count = Cardinality(RestingAt(k))
              /\ \A o \in Fifo(price_levels[k]) :
                    ord[o].next_item # None => o < ord[o].next_item

\* C10: no trade of a limit aggressor has the same participant as buyer and
\* as seller.
C10_NoSelfTrade == \A t \in LimitTrades : t.buyer # t.seller

\* C11: a market order that finds a resting order of another participant on
\* the opposite side, which the buyer of the pair can pay for, trades with it
\* in its first pass for min(order size, resting size) units, whether or not
\* the aggressor's own side of the book is empty.
C11_MarketMatchesOpposite ==
    [][\A p \in Participants, b \in BOOLEAN, size \in 1..MaxSize :
          LET opp == TopLevel(Heap, ~b)
              qty == Min(size, ord[opp].size)
              buyer == IF b THEN p ELSE ord[opp].participant_id
          IN  (/\ cur.type = "idle"
               /\ opp \in orders
               /\ ord[opp].size > 0
               /\ ord[opp].participant_id # p
               /\ balance[buyer] >= ord[opp].price * qty
               /\ AcceptMarketOrder(p, b, size))
              => /\ reports' # <<>>
                 /\ reports'[1].resting = opp
                 /\ reports'[1].quantity = qty]_vars

\* C12: a market buy whose owner cannot pay for min(order size, best-ask size)
\* units at the price p of the best ask, but can pay for at least one, trades
\* floor(balance / p) units at p in its first pass: the ask's size falls by
\* that number, the buyer's position rises by it and the buyer's balance
\* stays >= 0.
C12_MarketBuyPartialFill ==
    [][\A p \in Participants, size \in 1..MaxSize :
          LET opp == TopLevel(Heap, FALSE)
              price == ord[opp].price
              qty == balance[p] \div price
          IN  (/\ cur.type = "idle"
               /\ opp \in orders
               /\ ord[opp].size > 0
               /\ ord[opp].participant_id # p
               /\ balance[p] < price * Min(size, ord[opp].size)
               /\ qty >= 1
               /\ AcceptMarketOrder(p, TRUE, size))
              => /\ Len(reports') = 1
                 /\ reports'[1].quantity = qty
                 /\ reports'[1].buy_price = price
                 /\ reports'[1].sell_price = price
                 /\ ord'[opp].size = ord[opp].size - qty
                 /\ portfolio'[p] = portfolio[p] + qty
                 /\ balance'[p] >= 0]_vars

\* the orders the book holds: the id index and the lists of all levels
BookOrders == orders \cup UNION {Fifo(price_levels[k]) : k \in Levels}

\* a step of the worker on a market order or on a cancel command
MarketOrCancelStep ==
    \/ \E p \in Participants, b \in BOOLEAN, size \in 1..MaxSize :
          AcceptMarketOrder(p, b, size)
    \/ ContinueMarketOrder
    \/ \E id \in 1..MaxOrders : AcceptCancelOrder(id)

\* C13: in every state every order in the id index and in every level's list
\* is a limit order with a price, and no step on a market order or on a cancel
\* command puts an order into the book: what is left of a market order when
\* its loop ends is dropped.
C13_OnlyLimitOrdersRest ==
    /\ [](\A o \in BookOrders :
            /\ ord[o].price \in Prices
            /\ ord[o].participant_id \in Participants)
    /\ [][MarketOrCancelStep => BookOrders' \subseteq BookOrders]_vars

\* Between two passes of a market order that has traded and keeps a remainder,
\* with orders resting in the book.
C13_Witness ==
    /\ cur.type = "market"
    /\ cur.mkt.size > 0
    /\ reports # <<>>
    /\ orders # {}

\* the orders that have left the book: created, not the order the worker is
\* working on, and not in the id index any more
Removed ==
    {o \in 1..(next_id - 1) : o \notin orders /\ ~(cur.type = "limit" /\ cur.id = o)}

\* C14: an order that has left the book (cancelled or completely filled) does
\* not trade again: after a processed command it is not the best order of
\* either side, and no pass of a later command reports a trade with it.
C14_RemovedNeverTrades ==
    /\ [](Processed => /\ TopLevel(Heap, TRUE) \notin Removed
                       /\ TopLevel(Heap, FALSE) \notin Removed)
    /\ [][\A i \in DOMAIN reports' : reports'[i].resting \notin Removed]_vars

\* C15: a cancel command for an id that is not resting (never created, filled
\* or cancelled before) makes remove return False and changes nothing: the id
\* index, every level with its list and aggregate, best bid, best ask, the
\* balances and the portfolios stay as they were.
C15_CancelUnknownIsNoOp ==
    [][\A id \in 1..MaxOrders :
          (id \notin orders /\ AcceptCancelOrder(id))
              => /\ BookRemove(Heap, id).ret = "False"
                 /\ UNCHANGED <<book, balance, portfolio>>
                 /\ cur' = cur
                 /\ reports' = <<>>]_vars

\* A book with resting orders and an order that has left it, just after a
\* command that sent no report: the cancel of that order leads from this state
\* back to this state.
C15_Witness ==
    /\ Processed
    /\ reports = <<>>
    /\ orders # {}
    /\ Removed # {}

\* C16: the value remove returns for a cancel command is True exactly when the
\* order named was resting (indexed) at that moment.
C16_CancelResult ==
    [][\A id \in 1..MaxOrders :
          AcceptCancelOrder(id)
              => (BookRemove(Heap, id).ret = "True" <=> id \in orders)]_vars

\* the new limit order (p, is_bid, price, size) does not cross the book
NoCross(is_bid, price) ==
    LET opp == TopLevel(Heap, ~is_bid)
    IN  \/ opp = None
        \/ IF is_bid THEN price < ord[opp].price ELSE price > ord[opp].price

\* the book after acceptLimitOrder for a new order followed by its removal
AddThenRemove(p, is_bid, price, size) ==
    BookRemove(LimitBody([Heap EXCEPT !.ord[next_id] =
                             [NoOrder EXCEPT !.price = price, !.size = size,
                                             !.is_bid = is_bid,
                                             !.participant_id = p]],
                         next_id),
               next_id)

\* the book gives back the snapshot and the best prices it has now after the
\* new order (p, is_bid, price, size) is added and removed
RoundTrip(p, is_bid, price, size) ==
    /\ GetOrderBook(AddThenRemove(p, is_bid, price, size)) = GetOrderBook(Heap)
    /\ GetBestPrice(AddThenRemove(p, is_bid, price, size), TRUE)
          = GetBestPrice(Heap, TRUE)
    /\ GetBestPrice(AddThenRemove(p, is_bid, price, size), FALSE)
          = GetBestPrice(Heap, FALSE)

\* C17: from every book reached after a processed command, adding a limit
\* order that does not cross and then removing it gives back the snapshot of
\* get_order_book, the best bid price and the best ask price (for the limit
\* orders of SpecLevels: a bid of P2 on any price, an ask of P1 on the lowest
\* or the highest price).
C17_AddRemoveRoundTrip ==
    (Processed /\ next_id <= LevelsOrders /\ CanAllocate) =>
        /\ \A price \in 1..LevelsPrice :
              NoCross(TRUE, price) => RoundTrip("P2", TRUE, price, 1)
        /\ \A price \in {1, LevelsPrice} :
              NoCross(FALSE, price) => RoundTrip("P1", FALSE, price, 1)

\* the worker takes the limit command at the front of the queue
TakesLimit ==
    /\ cur.type = "idle"
    /\ queue # <<>>
    /\ Head(queue).type = "limit"
    /\ queue' = Tail(queue)

\* the handler of the worker for a cancel command or for a limit order that
\* does not cross (its loop ends in the first pass)
ApplyCommand(H, order) ==
    IF order.type = "cancel" THEN BookRemove(H, order.id)
    ELSE LimitBody([H EXCEPT !.ord[order.id] =
                       [NoOrder EXCEPT !.price = order.price, !.size = order.size,
                                       !.is_bid = order.is_bid,
                                       !.participant_id = order.participant_id]],
                   order.id)

\* the book after the worker has processed the two commands of the queue
AfterQueue == ApplyCommand(ApplyCommand(Heap, queue[1]), queue[2])

\* the queue holds a limit order that does not cross and the cancel of it,
\* and nothing else
SubmitThenCancel(l, c) ==
    /\ Len(queue) = 2
    /\ {l, c} = {1, 2}
    /\ queue[l].type = "limit"
    /\ queue[c].type = "cancel"
    /\ queue[c].id = queue[l].id
    /\ NoCross(queue[l].is_bid, queue[l].price)

\* C18: when a participant has submitted a limit order that does not cross
\* and then a cancel for the order id it got back, while the limit order was
\* still waiting in the queue, then after the worker has processed both
\* commands the order is not resting and the snapshot of the book is the one
\* before the submit.
C18_SubmitThenCancel ==
    Processed =>
        \A l \in {1, 2}, c \in {1, 2} :
            SubmitThenCancel(l, c) =>
                /\ queue[l].id \notin AfterQueue.orders
                /\ GetOrderBook(AfterQueue) = GetOrderBook(Heap)

\* C19: the worker applies the limit commands in the order in which put_order
\* appended them: whenever it takes a limit command, every limit command still
\* waiting in the queue was put later.
C19_LimitFifo ==
    [][TakesLimit =>
          \A i \in 2..Len(queue) :
              queue[i].type = "limit" => Head(queue).timestamp < queue[i].timestamp]_vars

\* A limit order rests in the book while the limit order created next is still
\* waiting in the queue behind a command put after it.
C19_Witness ==
    /\ Processed
    /\ \E i \in DOMAIN queue :
          /\ queue[i].type = "limit"
          /\ queue[i].id - 1 \in orders
          /\ i > 1
          /\ queue[1].timestamp > queue[i].timestamp

\* C20: a command without a price is applied before every limit command that
\* was waiting in the queue when it was put: whenever the worker takes a limit
\* command, no command without a price that was put after it still waits.
C20_PricelessFirst ==
    [][TakesLimit =>
          \A i \in 2..Len(queue) :
              queue[i].price = None => queue[i].timestamp < Head(queue).timestamp]_vars

\* A limit command waits in the queue, and a command put after it (a command
\* without a price, as it overtook) has been processed already.
C20_Witness ==
    /\ Processed
    /\ \E i \in DOMAIN queue, t \in 1..(now - 1) :
          /\ queue[i].type = "limit"
          /\ t > queue[i].timestamp
          /\ \A j \in DOMAIN queue : queue[j].timestamp # t

\* C21: however many threads call add_order_book and create_ticker_queue for
\* the symbol, and however often, at most one worker exists for it, and a
\* command that is being applied to the book is applied by that worker, which
\* holds the condition of the symbol until it is done: the steps of two
\* commands never interleave.
C21_OneWorker ==
    /\ Cardinality(workers) <= 1
    /\ cur.type \in {"limit", "market"} => condition \in workers
    /\ condition # None => condition \in workers /\ cur.type \in {"limit", "market"}

\* both threads found no book and created one each, both went through
\* create_ticker_queue, and the worker is applying a command
C21_Witness ==
    /\ made = 2
    /\ \A t \in Threads : pc[t] = "idle"
    /\ cur.type = "limit"

\* C30: while the worker of the symbol is applying a command to the book it
\* does not hold the lock of the symbol's queue (the condition), so that a
\* put_order on the symbol can complete while a match is in progress.
C30_AppliesOutsideLock == cur.type \in {"limit", "market"} => LockFree

\* C26: after every processed command, on each side the best cursor is the
\* level of the extreme price among the resting orders (highest bid, lowest
\* ask): get_best_price returns that price and top_level the first order of
\* the list of that level; both return None exactly when no order rests on
\* the side.
C26_BestIsExtreme ==
    Processed =>
        \A side \in BOOLEAN :
            LET R == {o \in orders : ord[o].is_bid = side}
                best == CHOOSE o \in R : \A x \in R :
                            IF side THEN ord[x].price <= ord[o].price
                                    ELSE ord[x].price >= ord[o].price
            IN  IF R = {}
                THEN /\ GetBestPrice(Heap, side) = None
                     /\ TopLevel(Heap, side) = None
                ELSE /\ GetBestPrice(Heap, side) = ord[best].price
                     /\ TopLevel(Heap, side) # None
                     /\ TopLevel(Heap, side)
                            = lvl[price_levels[<<ord[best].price, side>>]].head

\* C29: each trade delivers two execution reports with the same quantity, a
\* "buy" report to the buyer and a "sell" report to the seller (both receive
\* it: the position and the cash of each change by the trade), and that
\* quantity is at least 1.
C29_TwoReportsPerTrade ==
    /\ [](\A i \in DOMAIN reports : reports[i].quantity >= 1)
    /\ [][\A i \in DOMAIN reports' :
            LET t == reports'[i]
            IN  (Len(reports') = 1 /\ t.buyer # t.seller)
                    => /\ portfolio'[t.buyer] = portfolio[t.buyer] + t.quantity
                       /\ portfolio'[t.seller] = portfolio[t.seller] - t.quantity
                       /\ balance'[t.buyer] = balance[t.buyer] - t.buy_price * t.quantity
                       /\ balance'[t.seller] = balance[t.seller] + t.sell_price * t.quantity]_vars

\* the depths a viewer asks for: none, or MaxDepth levels at most
MaxDepth == 2

\* C25: in every snapshot of a book at rest, the bids are in strictly falling
\* and the asks in strictly rising price order, each side has at most depth
\* entries when a depth is given, and they are the best ones, there is one
\* entry per returned level and it carries the aggregate size of the orders
\* resting at that level, and every returned bid price is strictly below
\* every returned ask price.
C25_SnapshotShape ==
    Processed =>
        \A has_depth \in BOOLEAN, depth \in 0..MaxDepth :
            LET view == GetOrderBookDepth(Heap, has_depth, depth)
                all == GetOrderBookDepth(Heap, FALSE, 0)
            IN  /\ \A i, j \in DOMAIN view.bids : i < j => view.bids[i][1] > view.bids[j][1]
                /\ \A i, j \in DOMAIN view.asks : i < j => view.asks[i][1] < view.asks[j][1]
                /\ has_depth => Len(view.bids) <= depth /\ Len(view.asks) <= depth
                /\ \A i \in DOMAIN view.bids, j \in DOMAIN all.bids :
                      (\A x \in DOMAIN view.bids : all.bids[j] # view.bids[x])
                          => all.bids[j][1] < view.bids[i][1]
                /\ \A i \in DOMAIN view.asks, j \in DOMAIN all.asks :
                      (\A x \in DOMAIN view.asks : all.asks[j] # view.asks[x])
                          => all.asks[j][1] > view.asks[i][1]
                /\ has_depth => /\ Len(view.bids) = Min(depth, Len(all.bids))
                                /\ Len(view.asks) = Min(depth, Len(all.asks))
                /\ \A i \in DOMAIN view.bids :
                      view.bids[i][2] = SumSizes(RestingAt(<<view.bids[i][1], TRUE>>))
                /\ \A i \in DOMAIN view.asks :
                      view.asks[i][2] = SumSizes(RestingAt(<<view.asks[i][1], FALSE>>))
                /\ \A i \in DOMAIN view.bids, j \in DOMAIN view.asks :
                      view.bids[i][1] < view.asks[j][1]

\* C28: a limit order whose price is outside the range of the book (above
\* 1000) is ignored when it is added: it does not rest, no level is created
\* for it and the book is as it was, whatever the book holds.
C28_OutOfRangeIgnored ==
    [][\A p \in Participants, is_bid \in BOOLEAN, size \in 1..MaxSize :
          (RangePrice > 1000 /\ AcceptLimitOrder(MaxOrders, p, is_bid, RangePrice, size))
              => /\ next_id \notin orders'
                 /\ price_levels'[<<RangePrice, is_bid>>] = price_levels[<<RangePrice, is_bid>>]
                 /\ UNCHANGED book]_vars

\* C27: create_limit_order returns None and puts nothing into the queue when
\* the side is neither 'buy' nor 'sell', the price is <= 0, the size is <= 0,
\* the symbol has no queue, or the balance of a buyer is below price * size:
\* queue, book, balances and portfolios stay as they are.  Otherwise it puts
\* exactly one limit command, with the price, the size and the side given,
\* at the back of the queue of the symbol and returns the id of that command.
C27_RejectedSubmission ==
    [][\A p \in Participants, price \in {0, QueuePrice}, size \in {0, 1, MaxSize},
          side \in {"buy", "sell", "hold"}, symbol \in {Symbol, "Y"} :
          CreateLimitOrder(p, price, size, side, symbol)
              => IF \/ side \notin {"buy", "sell"}
                    \/ price <= 0
                    \/ size <= 0
                    \/ symbol # Symbol
                    \/ ~has_queue
                    \/ (side = "buy" /\ balance[p] < price * size)
                 THEN /\ returned' = None
                      /\ UNCHANGED <<queue, book, balance, portfolio>>
                 ELSE /\ returned' # None
                      /\ \A i \in DOMAIN queue : queue[i].id # returned'
                      /\ queue' = Append(queue, queue'[Len(queue')])
                      /\ queue'[Len(queue')].type = "limit"
                      /\ queue'[Len(queue')].id = returned'
                      /\ queue'[Len(queue')].participant_id = p
                      /\ queue'[Len(queue')].price = price
                      /\ queue'[Len(queue')].size = size
                      /\ queue'[Len(queue')].is_bid = (side = "buy")
                      /\ UNCHANGED <<book, balance, portfolio>>]_vars

\* A submission has just been rejected (None was returned) after another had
\* been accepted, with a command waiting in the queue and an order resting in
\* the book.
C27_Witness ==
    /\ returned = None
    /\ next_id > 1
    /\ queue # <<>>
    /\ orders # {}

\* C24: the snapshot a call of get_order_book returns while the worker runs
\* is what the book held in some state it was in between the start and the
\* end of the call.
C24_SnapshotIsReal ==
    snap.pc = "done" => [bids |-> snap.bids, asks |-> snap.asks] \in snap.seen

\* C22: when the workers of two symbols trade for the same buyer, the balance
\* a worker read for its affordability check is still the buyer's balance
\* when that worker begins to apply the debit, and so no balance is ever
\* negative.
C22_ReadDecideWriteAtomic ==
    /\ [](\A p \in Participants : balance[p] >= 0)
    /\ [][\A s \in Symbols :
            (race[s].pc = "checked" /\ LoadBalance(s))
                => race[s].buyer_balance = balance[race[s].buyer]]_vars

\* C23: whoever reads the balances and the portfolios at any moment sees
\* every trade applied to both counterparties or to neither: the cash of all
\* participants is what it was at the start, the positions in a symbol sum to
\* zero, and the cash of each participant has changed by the price of the
\* units its positions have changed by.
C23_NoHalfSettledTrade ==
    /\ Total(balance, Participants) = Total(StartBalances, Participants)
    /\ \A s \in Symbols : Total(Position(s), Participants) = 0
    /\ \A p \in Participants :
          balance[p] + QueuePrice * (portfolio[p] + portfolio_other[p]) = StartBalances[p]

\* the four threads of the test have put their orders and the worker has
\* processed them all
Drained == Len(submitted) = Len(TestOrders) /\ queue = <<>> /\ Processed

\* order i of the test was put, and so dequeued, before order j
PutBefore(i, j) ==
    \E a \in DOMAIN submitted, b \in DOMAIN submitted :
        a < b /\ submitted[a] = i /\ submitted[b] = j

\* the aggregate size of the level of a price and side, None without a level
LevelSize(price, is_bid) ==
    IF price_levels[<<price, is_bid>>] = None THEN None
    ELSE lvl[price_levels[<<price, is_bid>>]].size

RECURSIVE RunLimit(_, _)
\* acceptLimitOrder from the heap H to the end of its loop, aggressor a
RunLimit(H, a) ==
    IF H.brk \/ H.exc \/ ~LimitCond(H, a) THEN H
    ELSE RunLimit(LimitBody(H, a), a)

\* C32: when a limit sell meets a best bid whose owner cannot pay for one unit
\* at the bid's price, the first pass of the loop removes that bid, sends no
\* report and changes no balance and no position, the aggressor rests at its
\* limit price with the size it has left, and the command is over: the rest
\* of the loop matches no further bid.
C32_UnaffordableBidEndsLoop ==
    [][\A p \in Participants, price \in 1..QueuePrice, size \in 1..MaxSize :
          LET opp == TopLevel(Heap, TRUE)
          IN  (/\ cur.type = "idle"
               /\ opp \in orders
               /\ ord[opp].size > 0
               /\ price <= ord[opp].price
               /\ balance[ord[opp].participant_id] < ord[opp].price
               /\ AcceptLimitOrder(MaxOrders, p, FALSE, price, size))
              => /\ opp \notin orders'
                 /\ reports' = <<>>
                 /\ balance' = balance
                 /\ portfolio' = portfolio
                 /\ next_id \in orders'
                 /\ ord'[next_id].price = price
                 /\ ord'[next_id].size = size
                 /\ cur'.type = "limit" =>
                       /\ RunLimit(Heap', next_id).reports = <<>>
                       /\ RunLimit(Heap', next_id).bal = balance]_vars

\* one side of the book: its orders, its levels, its tree and its best level
SideOf(is_bid) ==
    <<{o \in orders : ord[o].is_bid = is_bid},
      [o \in {x \in orders : ord[x].is_bid = is_bid} |-> ord[o]],
      IF is_bid THEN <<best_bid, bids>> ELSE <<best_ask, asks>>,
      [k \in {j \in LevelKeys : j[2] = is_bid} |->
          IF price_levels[k] = None THEN NoLevel ELSE lvl[price_levels[k]]]>>

\* the ask side of the book
AskSide == SideOf(FALSE)

\* the bid a with the limit price crosses the best ask, and its owner p cannot
\* pay for one unit at that limit price
CannotBuy(p, price) ==
    LET opp == TopLevel(Heap, FALSE)
    IN  /\ opp \in orders
        /\ ord[opp].size > 0
        /\ price >= ord[opp].price
        /\ balance[p] < price

\* the pass has ended the command of the bid a without a trade: no report,
\* the ask side, the balances and the positions as they were, and a is not
\* in the book
BuyDropped(a) ==
    /\ cur'.type = "idle"
    /\ reports' = <<>>
    /\ AskSide' = AskSide
    /\ balance' = balance
    /\ portfolio' = portfolio
    /\ a \notin BookOrders'

C34_MarketSelfTradeStops ==
    [][\A p \in Participants, b \in BOOLEAN, size \in 1..MaxSize :
          LET opp == TopLevel(Heap, ~b)
          IN  (/\ cur.type = "idle"
               /\ opp \in orders
               /\ ord[opp].participant_id = p
               /\ AcceptMarketOrder(p, b, size))
              => /\ UNCHANGED <<book, balance, portfolio>>
                 /\ reports' = <<>>
                 /\ cur'.type = "idle"]_vars

\* The best ask is an order of P1 and an order of P2 rests behind it on the
\* ask side; a bid rests too, so that a market buy of P1 enters its loop and
\* meets P1's own ask.
C34_Witness ==
    /\ Processed
    /\ RestingBids # {}
    /\ TopLevel(Heap, FALSE) \in orders
    /\ ord[TopLevel(Heap, FALSE)].participant_id = "P1"
    /\ \E o \in RestingAsks : ord[o].participant_id = "P2" /\ ord[o].size > 0
    /\ balance["P1"] >= ord[TopLevel(Heap, FALSE)].price

\* C35: a limit order that finds no order on the opposite side, or whose
\* price does not reach the best opposing price, is added to the book in the
\* first pass: it is indexed, with its limit price and its full size, and it
\* is the tail of the list of its level, behind the orders that were there;
\* no report is sent, and the opposite side, the balances and the positions
\* stay as they are.
C35_NonCrossingRests ==
    [][\A p \in Participants, is_bid \in BOOLEAN, price \in 1..LevelsPrice,
         size \in 1..MaxSize, max_orders \in {MaxOrders, LevelsOrders} :
          LET k == <<price, is_bid>>
              before == IF price_levels[k] = None THEN {} ELSE Fifo(price_levels[k])
              old_tail == IF price_levels[k] = None THEN None
                          ELSE lvl[price_levels[k]].tail
          IN  (/\ cur.type = "idle"
               /\ NoCross(is_bid, price)
               /\ AcceptLimitOrder(max_orders, p, is_bid, price, size))
              => /\ cur'.type = "idle"
                 /\ reports' = <<>>
                 /\ orders' = orders \cup {next_id}
                 /\ ord'[next_id].price = price
                 /\ ord'[next_id].size = size
                 /\ price_levels'[k] # None
                 /\ lvl'[price_levels'[k]].tail = next_id
                 /\ ord'[next_id].next_item = None
                 /\ ord'[next_id].previous_item = old_tail
                 /\ Fifo(price_levels[k])' = before \cup {next_id}
                 /\ SideOf(~is_bid)' = SideOf(~is_bid)
                 /\ balance' = balance
                 /\ portfolio' = portfolio]_vars

\* C36: the loops of acceptLimitOrder and acceptMarketOrder end from every
\* reachable book, because every pass makes progress: the pass leaves the
\* loop, or an order that rested before it rests no more, or the aggressor's
\* size has fallen by at least 1.
C36_EveryPassProgresses ==
    /\ [][\A p \in Participants, is_bid \in BOOLEAN, price \in 1..LevelsPrice,
            size \in 1..MaxSize, max_orders \in {MaxOrders, LevelsOrders} :
             (cur.type = "idle" /\ AcceptLimitOrder(max_orders, p, is_bid, price, size))
                => \/ cur'.type # "limit"
                   \/ \E o \in orders : o \notin orders'
                   \/ ord'[next_id].size <= size - 1]_vars
    /\ [][(cur.type = "limit" /\ ContinueLimitOrder)
             => \/ cur'.type # "limit"
                \/ \E o \in orders \ {cur.id} : o \notin orders'
                \/ ord'[cur.id].size <= ord[cur.id].size - 1]_vars
    /\ [][\A p \in Participants, is_bid \in BOOLEAN, size \in 1..MaxSize :
             (cur.type = "idle" /\ AcceptMarketOrder(p, is_bid, size))
                => \/ cur'.type # "market"
                   \/ \E o \in orders : o \notin orders'
                   \/ cur'.mkt.size <= size - 1]_vars
    /\ [][(cur.type = "market" /\ ContinueMarketOrder)
             => \/ cur'.type # "market"
                \/ \E o \in orders : o \notin orders'
                \/ cur'.mkt.size <= cur.mkt.size - 1]_vars

\* C37: every command put into the queue of the symbol is taken out and
\* applied once by the worker.  No wake-up is lost: the worker never waits
\* while a command is in the queue.  The worker takes a command only from a
\* queue that holds one, and the command leaves the queue as it is taken.
\* And when the worker thread keeps being scheduled, a queue that holds a
\* command is empty some time later.
C37_EveryCommandApplied ==
    /\ [](cur.type = "wait" => queue = <<>>)
    /\ [][(\E w \in workers : ProcessTickerOrders(w))
             => queue # <<>> /\ queue' = Tail(queue)]_vars
    /\ (queue # <<>>) ~> (queue = <<>>)

\* the worker takes the market or cancel command at the front of the queue
TakesPriceless ==
    /\ cur.type = "idle"
    /\ queue # <<>>
    /\ Head(queue).price = None
    /\ queue' = Tail(queue)

\* C38: market and cancel commands that wait in the queue of the symbol at
\* the same time are applied in the reverse of the order in which they were
\* put: whenever the worker takes a market or cancel command, every market or
\* cancel command still waiting in the queue was put earlier; and so a later
\* market order or cancel of a participant is applied before an earlier one of
\* the same participant.
C38_PricelessLifo ==
    [][TakesPriceless =>
          \A i \in 2..Len(queue) :
              queue[i].price = None => queue[i].timestamp < Head(queue).timestamp]_vars

\* The worker is about to take a cancel of a participant while a market order
\* that the same participant put before it waits behind it.
C38_Witness ==
    /\ Processed
    /\ LockFree
    /\ Len(queue) >= 2
    /\ queue[1].type = "cancel"
    /\ queue[2].type = "market"
    /\ queue[1].participant_id = queue[2].participant_id
    /\ queue[1].timestamp > queue[2].timestamp

\* the worker takes the cancel command at the front of the queue
TakesCancel ==
    /\ cur.type = "idle"
    /\ queue # <<>>
    /\ Head(queue).type = "cancel"
    /\ queue' = Tail(queue)

\* C39: a cancel command removes the resting order that has the order id it
\* names, whatever participant id and side the command carries: whenever the
\* worker takes a cancel command for an order that rests, the order rests no
\* more after the step, also when the order belongs to another participant
\* or to the other side.
C39_CancelIgnoresOwner ==
    [][TakesCancel /\ Head(queue).id \in orders
          => Head(queue).id \notin orders']_vars

\* The worker is about to take a cancel that P2 has put, with the side bid on
\* it, for a resting ask of P1.
C39_Witness ==
    /\ Processed
    /\ LockFree
    /\ queue # <<>>
    /\ Head(queue).type = "cancel"
    /\ Head(queue).participant_id = "P2"
    /\ Head(queue).is_bid
    /\ Head(queue).id \in orders
    /\ ord[Head(queue).id].participant_id = "P1"
    /\ ~ord[Head(queue).id].is_bid

====
